---- MODULE Spec2Model ----
(***************************************************************************)
(* A model of the digisim event-driven logic simulator: the CircuitFast    *)
(* engine (node store, two intrusive work lists, two-phase update), the    *)
(* builder combinators and the structural components (Wire, adder,         *)
(* D-latch, SRAM), together with the drivers that exercise them.           *)
(*                                                                         *)
(* A NodeId is the index into the node vectors plus one, so that the       *)
(* vectors are TLA+ sequences; NULL is the one id that indexes nothing.    *)
(***************************************************************************)
EXTENDS Integers, Sequences, FiniteSets, TLC

VARIABLES
    circuit,   \* the CircuitFast value
    pc,        \* position of the controller (driver) in its code
    dut,       \* the handles (node ids) of the component under test
    args,      \* the values the driver is currently applying
    result,    \* the value the driver read last
    written    \* the driver's record of what it stored (SRAM drivers)

vars == <<circuit, pc, dut, args, result, written>>

----------------------------------------------------------------------------
(* Bounds of the model *)

\* Tick is a u64 that wraps; the model wraps it at a small modulus.
TickModulus == 2

----------------------------------------------------------------------------
(* Evaluation helper *)

\* Op applied to the value of v, with v evaluated exactly once.
Eval(v, Op(_)) == CHOOSE r \in {Op(x) : x \in {v}} : TRUE

----------------------------------------------------------------------------
(* circuit_fast.rs: the engine *)

NULL == 0

\* Wrapping<u8>
U8 == 256

\* NodeData born with one input counted
NodeData_counted(gate_type, inverted) ==
    [next_update |-> NULL, output |-> inverted, inputs |-> 1,
     inverted |-> inverted, gate_type |-> gate_type]

NodeData(gate_type, inverted) ==
    [next_update |-> NULL, output |-> inverted, inputs |-> 0,
     inverted |-> inverted, gate_type |-> gate_type]

UpdateData == [next_changed |-> NULL, inputs_delta |-> 0]

new ==
    [tick |-> 0, node_children |-> <<>>, node_data |-> <<>>,
     node_update_data |-> <<>>, update_head |-> NULL, changed_head |-> NULL]

\* enqueue_update that links nothing into the propagate list
enqueue_update_drops(c0, node_id) == c0

\* enqueue!(self.update_head, self.node_data[node_id].next_update, node_id)
enqueue_update(c0, node_id) ==
    Eval(c0, LAMBDA c :
        IF c.node_data[node_id].next_update = NULL
        THEN [c EXCEPT !.node_data[node_id].next_update = c.update_head,
                       !.update_head = node_id]
        ELSE c)

\* inputs_delta += 1 / -= 1, then
\* enqueue!(*changed_head, update_data.next_changed, node_id)
modify(c0, node_id, increment) ==
    Eval(c0, LAMBDA c :
        LET delta == c.node_update_data[node_id].inputs_delta
            new_delta == IF increment THEN (delta + 1) % U8
                         ELSE (delta + U8 - 1) % U8
        IN  IF c.node_update_data[node_id].next_changed = NULL
            THEN [c EXCEPT !.node_update_data[node_id] =
                               [next_changed |-> c.changed_head,
                                inputs_delta |-> new_delta],
                           !.changed_head = node_id]
            ELSE [c EXCEPT !.node_update_data[node_id].inputs_delta = new_delta])

\* add_node that leaves output at its default, false
add_node_output_false(c0, gate_type, inverted) ==
    Eval(c0, LAMBDA c :
        [c EXCEPT !.node_children = Append(@, <<>>),
                  !.node_data = Append(@, [NodeData(gate_type, inverted)
                                              EXCEPT !.output = FALSE]),
                  !.node_update_data = Append(@, UpdateData)])

\* add_node: the next id in creation order, a node born with output = inverted
\* and no children
add_node(c0, gate_type, inverted) ==
    Eval(c0, LAMBDA c :
        [c EXCEPT !.node_children = Append(@, <<>>),
                  !.node_data = Append(@, NodeData(gate_type, inverted)),
                  !.node_update_data = Append(@, UpdateData)])

\* The loop over node_children[node_id] in the first loop of update, for the
\* children lo .. hi in order
RECURSIVE notify(_, _, _, _, _)
notify(c0, children, lo, hi, node_output) ==
    Eval(c0, LAMBDA c :
        IF lo > hi THEN c
        ELSE IF lo = hi THEN modify(c, children[lo], node_output)
        ELSE notify(notify(c, children, lo, (lo + hi) \div 2, node_output),
                    children, (lo + hi) \div 2 + 1, hi, node_output))

\* One iteration of the first loop of update; p.c is the circuit, p.node_id
\* the loop variable
propagate_node(p) ==
    LET c == p.c
        node_id == p.node_id
    IN  [c |-> notify([c EXCEPT !.node_data[node_id].next_update = NULL],
                      c.node_children[node_id], 1,
                      Len(c.node_children[node_id]),
                      c.node_data[node_id].output),
         node_id |-> c.node_data[node_id].next_update]

\* Up to n iterations of the first loop of update
RECURSIVE propagate_upto(_, _)
propagate_upto(p0, n) ==
    Eval(p0, LAMBDA p :
        IF p.node_id = NULL \/ n = 0 THEN p
        ELSE IF n = 1 THEN propagate_node(p)
        ELSE propagate_upto(propagate_upto(p, n \div 2), n - n \div 2))

\* propagate that visits the head of the list only
propagate_head_only(p0) ==
    IF p0.node_id = NULL THEN p0.c ELSE propagate_node(p0).c

\* First loop of update: walk the propagate list until NULL
RECURSIVE propagate(_)
propagate(p0) ==
    Eval(p0, LAMBDA p :
        IF p.node_id = NULL THEN p.c
        ELSE propagate(propagate_upto(p, Len(p.c.node_data) + 1)))

\* xor_low_bit with the delta added instead of its low bit toggled
xor_low_bit_adds(inputs, delta) == (inputs + delta) % U8

\* inputs ^= inputs_delta & 1 on a u8
xor_low_bit(inputs, delta) ==
    IF delta % 2 = 1
    THEN (IF inputs % 2 = 0 THEN inputs + 1 ELSE inputs - 1)
    ELSE inputs

\* recompute_node that leaves inputs_delta as it found it
recompute_node_keeps_delta(c0, node_id) ==
    Eval(c0, LAMBDA c :
        LET nd == c.node_data[node_id]
            delta == c.node_update_data[node_id].inputs_delta
            inputs == IF nd.gate_type = "XorXnor"
                      THEN xor_low_bit(nd.inputs, delta)
                      ELSE (nd.inputs + delta) % U8
            new_output == (nd.inverted /= (inputs /= 0))
        IN  IF nd.output /= new_output
            THEN enqueue_update(
                     [c EXCEPT !.node_data[node_id].inputs = inputs,
                               !.node_data[node_id].output = new_output],
                     node_id)
            ELSE [c EXCEPT !.node_data[node_id].inputs = inputs])

\* Body of the second loop of update for a node with a pending delta: apply
\* the delta, recompute the output, enqueue the node if the output changed.
recompute_node(c0, node_id) ==
    Eval(c0, LAMBDA c :
        LET nd == c.node_data[node_id]
            delta == c.node_update_data[node_id].inputs_delta
            inputs == IF nd.gate_type = "XorXnor"
                      THEN xor_low_bit(nd.inputs, delta)
                      ELSE (nd.inputs + delta) % U8
            new_output == (nd.inverted /= (inputs /= 0))
        IN  IF nd.output /= new_output
            THEN enqueue_update(
                     [c EXCEPT !.node_data[node_id].inputs = inputs,
                               !.node_data[node_id].output = new_output,
                               !.node_update_data[node_id].inputs_delta = 0],
                     node_id)
            ELSE [c EXCEPT !.node_data[node_id].inputs = inputs,
                           !.node_update_data[node_id].inputs_delta = 0])

\* One iteration of the second loop of update
recompute_step(p) ==
    LET c == p.c
        node_id == p.node_id
    IN  [c |-> IF c.node_update_data[node_id].inputs_delta /= 0
               THEN recompute_node(
                        [c EXCEPT !.node_update_data[node_id].next_changed = NULL],
                        node_id)
               ELSE [c EXCEPT !.node_update_data[node_id].next_changed = NULL],
         node_id |-> c.node_update_data[node_id].next_changed]

\* Up to n iterations of the second loop of update
RECURSIVE recompute_upto(_, _)
recompute_upto(p0, n) ==
    Eval(p0, LAMBDA p :
        IF p.node_id = NULL \/ n = 0 THEN p
        ELSE IF n = 1 THEN recompute_step(p)
        ELSE recompute_upto(recompute_upto(p, n \div 2), n - n \div 2))

\* Second loop of update: walk the recompute list until NULL
RECURSIVE recompute(_)
recompute(p0) ==
    Eval(p0, LAMBDA p :
        IF p.node_id = NULL THEN p.c
        ELSE recompute(recompute_upto(p, Len(p.c.node_data) + 1)))

\* update that leaves the tick counter alone when there is no work
update_idle_keeps_tick(c0) ==
    Eval(c0, LAMBDA c :
    Eval(propagate([c |-> [c EXCEPT !.update_head = NULL],
                    node_id |-> c.update_head]), LAMBDA a :
    Eval(recompute([c |-> [a EXCEPT !.changed_head = NULL],
                    node_id |-> a.changed_head]), LAMBDA b :
        IF c.update_head = NULL /\ c.changed_head = NULL THEN b
        ELSE [b EXCEPT !.tick = (b.tick + 1) % TickModulus])))

\* update: the first loop, the second loop, tick += 1
update(c0) ==
    Eval(c0, LAMBDA c :
    Eval(propagate([c |-> [c EXCEPT !.update_head = NULL],
                    node_id |-> c.update_head]), LAMBDA a :
    Eval(recompute([c |-> [a EXCEPT !.changed_head = NULL],
                    node_id |-> a.changed_head]), LAMBDA b :
        [b EXCEPT !.tick = (b.tick + 1) % TickModulus])))

\* work_left that looks at the propagate list only
work_left_update_only(c) == c.update_head /= NULL

\* work_left that looks at the recompute list only
work_left_changed_only(c) == c.changed_head /= NULL

work_left(c) == c.update_head /= NULL \/ c.changed_head /= NULL

\* create_node whose And and Nand have their inverted bits swapped
create_node_and_swapped(c, node_type) ==
    CASE node_type = "Or"    -> add_node(c, "OrNor", FALSE)
      [] node_type = "Nor"   -> add_node(c, "OrNor", TRUE)
      [] node_type = "And"   -> add_node(c, "AndNand", FALSE)
      [] node_type = "Nand"  -> add_node(c, "AndNand", TRUE)
      [] node_type = "Xor"   -> add_node(c, "XorXnor", FALSE)
      [] node_type = "Xnor"  -> add_node(c, "XorXnor", TRUE)
      [] node_type = "Input" -> add_node(c, "OrNor", FALSE)

\* or / nor / and / nand / xor / xnor / input of the Circuit trait
create_node(c, node_type) ==
    CASE node_type = "Or"    -> add_node(c, "OrNor", FALSE)
      [] node_type = "Nor"   -> add_node(c, "OrNor", TRUE)
      [] node_type = "And"   -> add_node(c, "AndNand", TRUE)
      [] node_type = "Nand"  -> add_node(c, "AndNand", FALSE)
      [] node_type = "Xor"   -> add_node(c, "XorXnor", FALSE)
      [] node_type = "Xnor"  -> add_node(c, "XorXnor", TRUE)
      [] node_type = "Input" -> add_node(c, "OrNor", FALSE)

\* is_active that reads through the value the controller observed last
is_active_observed(c, node_id) ==
    c.node_data[node_id].output /= (result.kind = "get_output" /\ result.val)

is_active(c, node_id) == c.node_data[node_id].output

get_output(c, node_id) == is_active(c, node_id)

\* set_input without the comparison with the current output
set_input_always_enqueues(c0, node_id, val) ==
    Eval(c0, LAMBDA c :
        enqueue_update([c EXCEPT !.node_data[node_id].output = val], node_id))

set_input(c0, node_id, val) ==
    Eval(c0, LAMBDA c :
        IF c.node_data[node_id].output /= val
        THEN enqueue_update([c EXCEPT !.node_data[node_id].output = val], node_id)
        ELSE c)

\* connect that treats every consumer as an OrNor gate
connect_ignores_family(c0, input, output) ==
    Eval(c0, LAMBDA c :
        IF is_active(c, input)
        THEN modify([c EXCEPT !.node_children[input] = Append(@, output)],
                    output, TRUE)
        ELSE [c EXCEPT !.node_children[input] = Append(@, output)])

\* connect that only records the edge
connect_without_reconcile(c0, input, output) ==
    [c0 EXCEPT !.node_children[input] = Append(@, output)]

\* connect: push the child, reconcile its counter with the producer's output
connect(c0, input, output) ==
    Eval(c0, LAMBDA c :
        LET is_and_nand == c.node_data[output].gate_type = "AndNand"
        IN  IF is_active(c, input) /= is_and_nand
            THEN modify([c EXCEPT !.node_children[input] = Append(@, output)],
                        output, ~is_and_nand)
            ELSE [c EXCEPT !.node_children[input] = Append(@, output)])

----------------------------------------------------------------------------
(* circuit_sim.rs: run *)

\* run(max_ticks): the circuit after the loop
RECURSIVE run(_, _)
run(c0, max_ticks) ==
    Eval(c0, LAMBDA c :
        IF max_ticks = 0 \/ ~work_left(c) THEN c
        ELSE run(update(c), max_ticks - 1))

----------------------------------------------------------------------------
(* Construction.  A builder is modelled by the sequence of engine calls it
   makes, in the order it makes them.  k is the number of nodes that exist
   when the builder is entered; the engine hands out ids in creation order,
   so the builder's handles are k + 1, k + 2, ...  Each create_node call
   carries the handle the builder binds to the returned id. *)

CreateNode(node_type, id) ==
    [call |-> "create_node", node_type |-> node_type, id |-> id]

Connect(input, output) == [call |-> "connect", input |-> input, output |-> output]

SetInput(node_id, val) == [call |-> "set_input", node_id |-> node_id, val |-> val]

\* One engine call
call(c, op) ==
    CASE op.call = "create_node" -> create_node(c, op.node_type)
      [] op.call = "connect"     -> connect(c, op.input, op.output)
      [] op.call = "set_input"   -> set_input(c, op.node_id, op.val)

\* The calls lo .. hi of a builder applied in order
RECURSIVE exec(_, _, _, _)
exec(c0, calls, lo, hi) ==
    Eval(c0, LAMBDA c :
        IF lo > hi THEN c
        ELSE IF lo = hi THEN call(c, calls[lo])
        ELSE exec(exec(c, calls, lo, (lo + hi) \div 2),
                  calls, (lo + hi) \div 2 + 1, hi))

\* The circuit a builder leaves behind when started on a fresh circuit
build(calls0) == Eval(calls0, LAMBDA calls : exec(new, calls, 1, Len(calls)))

\* Every handle is the id the engine returned: the i-th node created is node i
handles_ok(calls0) ==
    Eval(calls0, LAMBDA calls :
        LET created == SelectSeq(calls, LAMBDA op : op.call = "create_node")
        IN  \A i \in 1 .. Len(created) : created[i].id = i)

\* A failed assert! at the head of a builder: the panic unwinds out of the
\* builder, which has made no call
Panic == [calls |-> <<>>, panicked |-> TRUE]

RECURSIVE Flatten(_, _)
Flatten(seqs, i) == IF i > Len(seqs) THEN <<>> ELSE seqs[i] \o Flatten(seqs, i + 1)

----------------------------------------------------------------------------
(* circuit_builder.rs: combinators *)

\* Connector::gate_gen: create the gate (node k + 1), connect every input
gate_gen(k, node_type, inputs) ==
    <<CreateNode(node_type, k + 1)>>
    \o [i \in 1 .. Len(inputs) |-> Connect(inputs[i], k + 1)]

\* Connector::invert
invert(k, input) == gate_gen(k, "Nor", <<input>>)

\* Connector::trigger / Connector::input / Connector::new
Connector_input(k) == <<CreateNode("Input", k + 1)>>

\* Connector::set(val): drive the connector's own node
Connector_set(output, val) == SetInput(output, val)

\* Connector::connect(&other): an edge from this connector's node to other's
Connector_connect(output, other) == Connect(output, other)

----------------------------------------------------------------------------
(* tests/circuit_test.rs: gate_test_gen *)

GateKinds == {"Or", "Nor", "And", "Nand", "Xor", "Xnor"}

\* The expecteds arrays of gate_tests, indexed by the combination (in_a, in_b)
expecteds(kind, in_a, in_b) ==
    CASE kind = "Or"   -> in_a \/ in_b
      [] kind = "Nor"  -> ~(in_a \/ in_b)
      [] kind = "And"  -> in_a /\ in_b
      [] kind = "Nand" -> ~(in_a /\ in_b)
      [] kind = "Xor"  -> in_a /= in_b
      [] kind = "Xnor" -> in_a = in_b

\* gate_test_gen up to the loop: two inputs and the gate over them
GateBuild(kind) ==
    [calls |-> Connector_input(0) \o Connector_input(1)
               \o gate_gen(2, kind, <<1, 2>>),
     input_a |-> 1, input_b |-> 2, out |-> 3]

InitGate ==
    \E kind \in GateKinds : \E b \in {GateBuild(kind)} :
        /\ handles_ok(b.calls)
        /\ circuit = build(b.calls)
        /\ dut = [kind |-> kind, input_a |-> b.input_a,
                  input_b |-> b.input_b, out |-> b.out]
        /\ pc = "next"
        /\ args = [in_a |-> FALSE, in_b |-> FALSE]
        /\ result = FALSE
        /\ written = <<>>

\* The loop head: the next combination
GateNext ==
    /\ pc = "next"
    /\ \E in_a \in BOOLEAN, in_b \in BOOLEAN :
           args' = [in_a |-> in_a, in_b |-> in_b]
    /\ pc' = "set_a"
    /\ UNCHANGED <<circuit, dut, result, written>>

GateSetA ==
    /\ pc = "set_a"
    /\ circuit' = set_input(circuit, dut.input_a, args.in_a)
    /\ pc' = "set_b"
    /\ UNCHANGED <<dut, args, result, written>>

GateSetB ==
    /\ pc = "set_b"
    /\ circuit' = set_input(circuit, dut.input_b, args.in_b)
    /\ pc' = "run"
    /\ UNCHANGED <<dut, args, result, written>>

\* One iteration of the loop of run_until_done (and of run, whose budget of
\* 100 ticks no driver here exhausts)
Update ==
    /\ pc = "run"
    /\ work_left(circuit)
    /\ circuit' = update(circuit)
    /\ UNCHANGED <<pc, dut, args, result, written>>

\* The run loop ends; the driver reads the output
GateRead ==
    /\ pc = "run"
    /\ ~work_left(circuit)
    /\ result' = get_output(circuit, dut.out)
    /\ pc' = "check"
    /\ UNCHANGED <<circuit, dut, args, written>>

GateLoop ==
    /\ pc = "check"
    /\ pc' = "next"
    /\ UNCHANGED <<circuit, dut, args, result, written>>

NextGate == GateNext \/ GateSetA \/ GateSetB \/ Update \/ GateRead \/ GateLoop

SpecGate == InitGate /\ [][NextGate]_vars

\* C1: each two-input gate, driven with a combination of its two external
\* inputs and run to quiescence, outputs the classical truth-table value.
C1_GateTruthTable ==
    pc = "check" => result = expecteds(dut.kind, args.in_a, args.in_b)

C1_Witness ==
    /\ pc = "check"
    /\ dut.kind = "And"
    /\ args.in_a /\ args.in_b
    /\ result = TRUE

----------------------------------------------------------------------------
(* components/adder.rs *)

\* Number of bits of the ripple-carry adder under test
BITS == 2

bit(val, i) == (val \div (2 ^ i)) % 2 = 1

\* adder whose carry-out misses the and!(b, cin) term
adder_two_carries(k, a, b, cin) ==
    [calls |-> gate_gen(k, "Xor", <<a, b, cin>>)
               \o gate_gen(k + 1, "And", <<a, b>>)
               \o gate_gen(k + 2, "And", <<a, cin>>)
               \o gate_gen(k + 3, "And", <<b, cin>>)
               \o gate_gen(k + 4, "Or", <<k + 2, k + 3>>),
     sum |-> k + 1, cout |-> k + 5, k |-> k + 5]

\* adder(a, b, cin): sum = xor!(a, b, cin),
\* cout = or!(and!(a, b), and!(a, cin), and!(b, cin))
adder(k, a, b, cin) ==
    [calls |-> gate_gen(k, "Xor", <<a, b, cin>>)
               \o gate_gen(k + 1, "And", <<a, b>>)
               \o gate_gen(k + 2, "And", <<a, cin>>)
               \o gate_gen(k + 3, "And", <<b, cin>>)
               \o gate_gen(k + 4, "Or", <<k + 2, k + 3, k + 4>>),
     sum |-> k + 1, cout |-> k + 5, k |-> k + 5]

\* The loop of RippleCarryAdder::<bits>::new; rca.carry is the local variable
\* carry
RECURSIVE rca_loop(_, _)
rca_loop(rca0, i) ==
    Eval(rca0, LAMBDA rca :
        IF i >= rca.bits THEN rca
        ELSE Eval(adder(rca.k + 2, rca.k + 1, rca.k + 2, rca.carry), LAMBDA ad :
                 rca_loop([calls |-> rca.calls \o Connector_input(rca.k)
                                     \o Connector_input(rca.k + 1) \o ad.calls,
                           input_a |-> Append(rca.input_a, rca.k + 1),
                           input_b |-> Append(rca.input_b, rca.k + 2),
                           cin |-> rca.cin,
                           sum |-> Append(rca.sum, ad.sum),
                           carry |-> ad.cout,
                           bits |-> rca.bits,
                           k |-> ad.k], i + 1)))

\* RippleCarryAdder::new without its assertion
RippleCarryAdder_new_unasserted(bits, k, cin) ==
    Eval(rca_loop([calls |-> <<>>, input_a |-> <<>>, input_b |-> <<>>,
                   cin |-> cin, sum |-> <<>>, carry |-> cin, bits |-> bits,
                   k |-> k], 0),
         LAMBDA rca :
        [calls |-> rca.calls, input_a |-> rca.input_a, input_b |-> rca.input_b,
         cin |-> rca.cin, cout |-> rca.carry, sum |-> rca.sum])

\* RippleCarryAdder::<bits>::new(builder, cin): the assertion, then the loop;
\* cout is the last carry
RippleCarryAdder_new(bits, k, cin) ==
    IF ~(bits > 0) THEN Panic
    ELSE
    Eval(rca_loop([calls |-> <<>>, input_a |-> <<>>, input_b |-> <<>>,
                   cin |-> cin, sum |-> <<>>, carry |-> cin, bits |-> bits,
                   k |-> k], 0),
         LAMBDA rca :
        [calls |-> rca.calls, input_a |-> rca.input_a, input_b |-> rca.input_b,
         cin |-> rca.cin, cout |-> rca.carry, sum |-> rca.sum])

\* The first loop of test_rca_add: set_input of bit i of a, then of b
RECURSIVE rca_drive(_, _, _, _, _)
rca_drive(c0, rca, a, b, i) ==
    Eval(c0, LAMBDA c :
        IF i >= BITS THEN c
        ELSE rca_drive(set_input(set_input(c, rca.input_a[i + 1], bit(a, i)),
                                 rca.input_b[i + 1], bit(b, i)),
                       rca, a, b, i + 1))

\* The second loop of test_rca_add: the sum bus read LSB first
RECURSIVE rca_read_sum(_, _, _)
rca_read_sum(c, rca, i) ==
    IF i >= BITS THEN 0
    ELSE (IF get_output(c, rca.sum[i + 1]) THEN 2 ^ i ELSE 0)
         + rca_read_sum(c, rca, i + 1)

\* rca_tests: the adder with its carry-in a fresh Connector::new node
RcaBuild ==
    Eval(RippleCarryAdder_new(BITS, 1, 1), LAMBDA rca :
        [rca EXCEPT !.calls = Connector_input(0) \o @])

InitRca ==
    \E rca \in {RcaBuild} :
        /\ handles_ok(rca.calls)
        /\ circuit = build(rca.calls)
        /\ dut = [input_a |-> rca.input_a, input_b |-> rca.input_b,
                  cin |-> rca.cin, cout |-> rca.cout, sum |-> rca.sum]
        /\ pc = "next"
        /\ args = [a |-> 0, b |-> 0]
        /\ result = [sum |-> 0, cout |-> FALSE]
        /\ written = <<>>

\* test_rca_add up to run_until_done, for the next pair (a, b)
RcaDrive ==
    /\ pc = "next"
    /\ \E a \in 0 .. (2 ^ BITS - 1), b \in 0 .. (2 ^ BITS - 1) :
           /\ args' = [a |-> a, b |-> b]
           /\ circuit' = rca_drive(circuit, dut, a, b, 0)
    /\ pc' = "run"
    /\ UNCHANGED <<dut, result, written>>

\* test_rca_add after run_until_done: read the sum bus and cout
RcaRead ==
    /\ pc = "run"
    /\ ~work_left(circuit)
    /\ result' = [sum |-> rca_read_sum(circuit, dut, 0),
                  cout |-> get_output(circuit, dut.cout)]
    /\ pc' = "check"
    /\ UNCHANGED <<circuit, dut, args, written>>

RcaLoop ==
    /\ pc = "check"
    /\ pc' = "next"
    /\ UNCHANGED <<circuit, dut, args, result, written>>

NextRca == RcaDrive \/ Update \/ RcaRead \/ RcaLoop

SpecRca == InitRca /\ [][NextRca]_vars

\* C2: after driving a and b (carry-in false) and run_until_done, the sum bus
\* reads (a + b) mod 2^BITS and cout is the carry out of the addition.
C2_RcaAdds ==
    pc = "check" =>
        /\ result.sum = (args.a + args.b) % (2 ^ BITS)
        /\ result.cout = (args.a + args.b >= 2 ^ BITS)

C2_Witness ==
    /\ pc = "check"
    /\ args.a = 2 ^ BITS - 1
    /\ args.b = 1
    /\ result = [sum |-> 0, cout |-> TRUE]

\* test_adder: three inputs and the full adder over them
AdderBuild ==
    Eval(adder(3, 1, 2, 3), LAMBDA ad :
        [calls |-> Connector_input(0) \o Connector_input(1)
                   \o Connector_input(2) \o ad.calls,
         ia |-> 1, ib |-> 2, icin |-> 3, sum |-> ad.sum, cout |-> ad.cout])

InitAdder ==
    \E ad \in {AdderBuild} :
        /\ handles_ok(ad.calls)
        /\ circuit = build(ad.calls)
        /\ dut = [ia |-> ad.ia, ib |-> ad.ib, icin |-> ad.icin,
                  sum |-> ad.sum, cout |-> ad.cout]
        /\ pc = "next"
        /\ args = [a |-> FALSE, b |-> FALSE, cin |-> FALSE]
        /\ result = [sum |-> FALSE, cout |-> FALSE]
        /\ written = <<>>

\* test_adder: the three set_input calls
AdderDrive ==
    /\ pc = "next"
    /\ \E a \in BOOLEAN, b \in BOOLEAN, cin \in BOOLEAN :
           /\ args' = [a |-> a, b |-> b, cin |-> cin]
           /\ circuit' = set_input(set_input(set_input(circuit, dut.ia, a),
                                             dut.ib, b), dut.icin, cin)
    /\ pc' = "run"
    /\ UNCHANGED <<dut, result, written>>

AdderRead ==
    /\ pc = "run"
    /\ ~work_left(circuit)
    /\ result' = [sum |-> get_output(circuit, dut.sum),
                  cout |-> get_output(circuit, dut.cout)]
    /\ pc' = "check"
    /\ UNCHANGED <<circuit, dut, args, written>>

AdderLoop ==
    /\ pc = "check"
    /\ pc' = "next"
    /\ UNCHANGED <<circuit, dut, args, result, written>>

NextAdder == AdderDrive \/ Update \/ AdderRead \/ AdderLoop

SpecAdder == InitAdder /\ [][NextAdder]_vars

\* C3: the full adder, driven with a, b, cin and run to quiescence, has
\* sum = a XOR b XOR cin and cout = majority(a, b, cin).
C3_FullAdder ==
    pc = "check" =>
        /\ result.sum = ((args.a /= args.b) /= args.cin)
        /\ result.cout = ((args.a /\ args.b) \/ (args.a /\ args.cin)
                          \/ (args.b /\ args.cin))

C3_Witness ==
    /\ pc = "check"
    /\ args = [a |-> TRUE, b |-> FALSE, cin |-> TRUE]
    /\ result = [sum |-> FALSE, cout |-> TRUE]

----------------------------------------------------------------------------
(* components/wire.rs.  A wire is the sequence of its node ids, lane 0 first.
   A wire builder returns the calls it makes, its wire w and the number k of
   nodes that exist when it returns. *)

\* Wire::new: one Or node per lane
Wire_new(k, n) ==
    [calls |-> [i \in 1 .. n |-> CreateNode("Or", k + i)],
     w |-> [i \in 1 .. n |-> k + i],
     k |-> k + n]

\* Wire::map_gate: per lane, create a node of node_type and connect the lane
map_gate(k, wire, node_type) ==
    [calls |-> Flatten([i \in 1 .. Len(wire) |->
                           <<CreateNode(node_type, k + i),
                             Connect(wire[i], k + i)>>], 1),
     w |-> [i \in 1 .. Len(wire) |-> k + i],
     k |-> k + Len(wire)]

buffer(k, wire) == map_gate(k, wire, "Or")

Wire_invert(k, wire) == map_gate(k, wire, "Nor")

\* Wire::connect: lane i of wire to lane i of output (zip stops at the shorter)
Wire_connect(wire, output) ==
    [i \in 1 .. (IF Len(wire) <= Len(output) THEN Len(wire) ELSE Len(output))
        |-> Connect(wire[i], output[i])]

\* Wire::enable that leaves enable unconnected
Wire_enable_unconnected(k, wire, enable) == map_gate(k, wire, "And")

\* Wire::enable: an And per lane over the lane, then enable into every And
Wire_enable(k, wire, enable) ==
    Eval(map_gate(k, wire, "And"), LAMBDA m :
        [calls |-> m.calls \o [i \in 1 .. Len(m.w) |-> Connect(enable, m.w[i])],
         w |-> m.w, k |-> m.k])

\* Wire::slice::<START, LEN>: the assertion, then the lanes copied
slice(wire, START, LEN) ==
    IF ~(START + LEN <= Len(wire)) THEN Panic
    ELSE [calls |-> <<>>, w |-> [i \in 1 .. LEN |-> wire[START + i]]]

\* mask_bit_clear that looks at bit 0 of i whatever the bit asked for
mask_bit_clear_low(i, b) == i % 2 = 0

\* i & (1 << bit) == 0
mask_bit_clear(i, b) == (i \div (2 ^ b)) % 2 = 0

\* Wire::decode::<OUTPUTS>: output i is an And over, for every bit, the
\* inverted lane where bit of i is clear and the buffered lane where it is set
decode(k, wire, OUTPUTS) ==
    IF ~(OUTPUTS <= 2 ^ Len(wire)) THEN Panic
    ELSE
    Eval(buffer(k, wire), LAMBDA wire_pos :
    Eval(Wire_invert(wire_pos.k, wire), LAMBDA wire_neg :
        [calls |-> wire_pos.calls \o wire_neg.calls
                   \o Flatten([o \in 1 .. OUTPUTS |->
                         <<CreateNode("And", wire_neg.k + o)>>
                         \o [b \in 1 .. Len(wire) |->
                               IF mask_bit_clear(o - 1, b - 1)
                               THEN Connect(wire_neg.w[b], wire_neg.k + o)
                               ELSE Connect(wire_pos.w[b], wire_neg.k + o)]], 1),
         w |-> [o \in 1 .. OUTPUTS |-> wire_neg.k + o],
         k |-> wire_neg.k + OUTPUTS]))

\* T::is_one of val & (T::one() << bit): the masked value equals one
is_one(val, b) == ((val \div (2 ^ b)) % 2) * (2 ^ b) = 1

\* Wire::set: set_input of every lane with its bit_val
RECURSIVE Wire_set(_, _, _, _)
Wire_set(c0, wire, val, i) ==
    Eval(c0, LAMBDA c :
        IF i > Len(wire) THEN c
        ELSE Wire_set(set_input(c, wire[i], is_one(val, i - 1)), wire, val, i + 1))

\* Wire::read: the sum of 1 << bit over the lanes whose output is true
RECURSIVE Wire_read(_, _, _)
Wire_read(c, wire, i) ==
    IF i > Len(wire) THEN 0
    ELSE (IF get_output(c, wire[i]) THEN 2 ^ (i - 1) ELSE 0)
         + Wire_read(c, wire, i + 1)

----------------------------------------------------------------------------
(* components/memory.rs: latches and the SRAM cell *)

\* create_d_latch(input, enable): returns q
create_d_latch(k, input, enable) ==
    [calls |-> gate_gen(k, "Nor", <<input>>)
               \o gate_gen(k + 1, "And", <<k + 1, enable>>)      \* q_reset
               \o gate_gen(k + 2, "Or", <<input>>)
               \o gate_gen(k + 3, "And", <<k + 3, enable>>)      \* q_set
               \o <<Connector_set(k + 2, FALSE), Connector_set(k + 4, FALSE)>>
               \o gate_gen(k + 4, "Nor", <<k + 2>>)              \* q
               \o gate_gen(k + 5, "Nor", <<k + 4>>)              \* q_not
               \o <<Connector_set(k + 5, FALSE),
                    Connector_connect(k + 5, k + 6),
                    Connector_connect(k + 6, k + 5)>>,
     q_reset |-> k + 2, q_set |-> k + 4, q |-> k + 5, q_not |-> k + 6,
     output |-> k + 5, k |-> k + 6]

\* create_d_latch2(circuit, input_pos, input_neg, enable, write): returns output
create_d_latch2(k, input_pos, input_neg, enable, write) ==
    [calls |-> <<CreateNode("And", k + 1),                       \* q_reset
                 Connect(input_neg, k + 1), Connect(enable, k + 1),
                 Connect(write, k + 1), SetInput(k + 1, FALSE),
                 CreateNode("And", k + 2),                       \* q_set
                 Connect(input_pos, k + 2), Connect(enable, k + 2),
                 Connect(write, k + 2), SetInput(k + 2, FALSE),
                 CreateNode("Nor", k + 3),                       \* q
                 Connect(k + 1, k + 3), SetInput(k + 3, FALSE),
                 CreateNode("Nor", k + 4),                       \* q_not
                 Connect(k + 2, k + 4),
                 Connect(k + 3, k + 4), Connect(k + 4, k + 3),
                 CreateNode("And", k + 5),                       \* output
                 Connect(k + 3, k + 5), Connect(enable, k + 5)>>,
     q_reset |-> k + 1, q_set |-> k + 2, q |-> k + 3, q_not |-> k + 4,
     output |-> k + 5, k |-> k + 5]

\* The closure of create_sram_cell for one lane
sram_cell_lane(k, input, enable, write) ==
    Eval(create_d_latch2(k + 2, k + 1, k + 2, enable, write), LAMBDA l :
        [l EXCEPT !.calls = <<CreateNode("Or", k + 1), CreateNode("Nor", k + 2),
                              Connect(input, k + 1), Connect(input, k + 2)>>
                            \o @])

\* input.map(closure) of create_sram_cell; q collects the lanes' q nodes
RECURSIVE sram_cell_loop(_, _, _, _, _)
sram_cell_loop(cell0, input, enable, write, i) ==
    Eval(cell0, LAMBDA cell :
        IF i > Len(input) THEN cell
        ELSE Eval(sram_cell_lane(cell.k, input[i], enable, write), LAMBDA l :
                 sram_cell_loop([calls |-> cell.calls \o l.calls,
                                 w |-> Append(cell.w, l.output),
                                 q |-> Append(cell.q, l.q),
                                 k |-> l.k],
                                input, enable, write, i + 1)))

create_sram_cell(k, input, enable, write) ==
    sram_cell_loop([calls |-> <<>>, w |-> <<>>, q |-> <<>>, k |-> k],
                   input, enable, write, 1)

----------------------------------------------------------------------------
(* components/memory.rs: d_latch_test, and the same driver over a
   create_d_latch2 latch fed as create_sram_cell feeds it *)

LatchVariants == {"create_d_latch", "create_d_latch2"}

\* input is node 1, enable node 2; create_d_latch2 also gets a write node 3
\* and its input through the Or / Nor pair of an SRAM cell lane
LatchBuild(variant) ==
    IF variant = "create_d_latch"
    THEN Eval(create_d_latch(2, 1, 2), LAMBDA l :
             [calls |-> Connector_input(0) \o Connector_input(1) \o l.calls,
              input |-> 1, enable |-> 2, write |-> NULL, q |-> l.q])
    ELSE Eval(sram_cell_lane(3, 1, 2, 3), LAMBDA l :
             [calls |-> <<CreateNode("Or", 1), CreateNode("Or", 2),
                          CreateNode("Or", 3)>> \o l.calls,
              input |-> 1, enable |-> 2, write |-> 3, q |-> l.q])

\* After construction the driver reads q
InitLatch ==
    \E variant \in LatchVariants : \E l \in {LatchBuild(variant)} :
        /\ handles_ok(l.calls)
        /\ circuit = build(l.calls)
        /\ dut = [variant |-> variant, input |-> l.input, enable |-> l.enable,
                  write |-> l.write, q |-> l.q]
        /\ pc = "built"
        /\ args = [enable |-> FALSE, write |-> FALSE, input |-> FALSE]
        /\ result = get_output(build(l.calls), l.q)
        /\ written = FALSE

\* The first run_until_done, on the circuit as constructed
LatchStart ==
    /\ pc = "built"
    /\ pc' = "run"
    /\ UNCHANGED <<circuit, dut, args, result, written>>

\* set_input of enable (and of write, where the latch has one), then of input
latch_drive(c, l, enable, write, input) ==
    set_input(IF l.write = NULL THEN set_input(c, l.enable, enable)
              ELSE set_input(set_input(c, l.enable, enable), l.write, write),
              l.input, input)

\* The next input change.  written is the value a D-latch holds after it:
\* the input when enabled (and strobed), the value held before otherwise.
LatchDrive ==
    /\ pc = "check"
    /\ \E enable \in BOOLEAN, input \in BOOLEAN,
          write \in (IF dut.write = NULL THEN {TRUE} ELSE BOOLEAN) :
           /\ args' = [enable |-> enable, write |-> write, input |-> input]
           /\ circuit' = latch_drive(circuit, dut, enable, write, input)
           /\ written' = IF enable /\ write THEN input ELSE written
    /\ pc' = "run"
    /\ UNCHANGED <<dut, result>>

\* run_until_done returns; the driver reads q
LatchRead ==
    /\ pc = "run"
    /\ ~work_left(circuit)
    /\ result' = get_output(circuit, dut.q)
    /\ pc' = "check"
    /\ UNCHANGED <<circuit, dut, args, written>>

NextLatch == LatchStart \/ LatchDrive \/ Update \/ LatchRead

SpecLatch == InitLatch /\ [][NextLatch]_vars

\* run_until_done keeps calling update while work is left
FairSpecLatch == SpecLatch /\ WF_vars(NextLatch)

\* C4: the create_d_latch latch reads false after construction and after the
\* first run_until_done, and after every later input change run to
\* quiescence q is the input if enable was true and the value held before
\* otherwise.
C4_DLatch ==
    (dut.variant = "create_d_latch" /\ pc \in {"built", "check"})
        => result = written

\* C5: every run_until_done on a circuit with a D-latch returns: whenever the
\* driver is in the run loop it eventually leaves it.
C5_LatchConverges == (pc = "run") ~> (pc = "check")

----------------------------------------------------------------------------
(* components/memory.rs: Sram *)

\* Width of the address bus and of a word (both 16 in impl Sram<16, 16>)
ADDR_SIZE == 2

WORD_SIZE == 1

\* Sram::new::<CELLS>: one cell per address
CELLS == 2 ^ ADDR_SIZE

\* Sram::new_full_2d: each half of the address is decoded on its own
SEL_BITS == ADDR_SIZE \div 2

SEL_OUTPUTS == 2 ^ SEL_BITS

CELLS_2D == SEL_OUTPUTS * SEL_OUTPUTS

\* The loop of Sram::new over enables: a cell per enable line, its outputs
\* connected to the output wire.  q collects each cell's q nodes.
RECURSIVE new_cells(_, _, _, _, _, _)
new_cells(acc0, input, enables, write, output, i) ==
    Eval(acc0, LAMBDA acc :
        IF i > Len(enables) THEN acc
        ELSE Eval(create_sram_cell(acc.k, input, enables[i], write), LAMBDA cell :
                 new_cells([calls |-> acc.calls \o cell.calls
                                      \o Wire_connect(cell.w, output),
                            q |-> Append(acc.q, cell.q),
                            k |-> cell.k],
                           input, enables, write, output, i + 1)))

\* Sram::new
Sram_new ==
    Eval(Wire_new(0, ADDR_SIZE), LAMBDA address :
    Eval(Wire_new(address.k, WORD_SIZE), LAMBDA input :
    Eval(input.k, LAMBDA k :
    Eval(decode(k + 3, address.w, CELLS), LAMBDA enables :
    Eval(Wire_new(enables.k, WORD_SIZE), LAMBDA output :
    Eval(new_cells([calls |-> <<>>, q |-> <<>>, k |-> output.k],
                   input.w, enables.w, k + 3, output.w, 1), LAMBDA cells :
        [calls |-> address.calls \o input.calls
                   \o <<CreateNode("Or", k + 1),       \* write
                        CreateNode("Or", k + 2),       \* write_delay_1
                        CreateNode("Or", k + 3),       \* write_delay_2
                        Connect(k + 1, k + 2), Connect(k + 2, k + 3)>>
                   \o enables.calls \o output.calls \o cells.calls,
         address |-> address.w, input |-> input.w, output |-> output.w,
         write |-> k + 1, q |-> cells.q]))))))

\* The loop of Sram::new_full_2d over i in 0 .. CELLS - 1: the cell's enable
\* is an And of sel0[i0] and sel1[i1]
RECURSIVE new_full_2d_cells(_, _, _, _, _, _, _)
new_full_2d_cells(acc0, input, sel0, sel1, write, output, i) ==
    Eval(acc0, LAMBDA acc :
        IF i >= CELLS_2D THEN acc
        ELSE LET i0 == i % SEL_OUTPUTS
                 i1 == i \div SEL_OUTPUTS
                 enable == acc.k + 1
             IN  Eval(create_sram_cell(acc.k + 1, input, acc.k + 1, write),
                      LAMBDA cell :
                     new_full_2d_cells(
                         [calls |-> acc.calls
                                    \o <<CreateNode("And", enable),
                                         Connect(sel0[i0 + 1], enable),
                                         Connect(sel1[i1 + 1], enable)>>
                                    \o cell.calls \o Wire_connect(cell.w, output),
                          q |-> Append(acc.q, cell.q),
                          k |-> cell.k],
                         input, sel0, sel1, write, output, i + 1)))

\* Sram::new_full_2d: write_delay_3 is created and connected, the cells are
\* handed write_delay_2
Sram_new_full_2d ==
    Eval(Wire_new(0, ADDR_SIZE), LAMBDA address :
    Eval(Wire_new(address.k, WORD_SIZE), LAMBDA input :
    Eval(input.k, LAMBDA k :
    Eval(decode(k + 4, slice(address.w, 0, SEL_BITS).w, SEL_OUTPUTS), LAMBDA sel0 :
    Eval(decode(sel0.k, slice(address.w, SEL_BITS, SEL_BITS).w, SEL_OUTPUTS),
         LAMBDA sel1 :
    Eval(Wire_new(sel1.k, WORD_SIZE), LAMBDA output :
    Eval(new_full_2d_cells([calls |-> <<>>, q |-> <<>>, k |-> output.k],
                           input.w, sel0.w, sel1.w, k + 3, output.w, 0),
         LAMBDA cells :
        [calls |-> address.calls \o input.calls
                   \o <<CreateNode("Or", k + 1),       \* write
                        CreateNode("Or", k + 2),       \* write_delay_1
                        CreateNode("Or", k + 3),       \* write_delay_2
                        CreateNode("Or", k + 4),       \* write_delay_3
                        Connect(k + 1, k + 2), Connect(k + 2, k + 3),
                        Connect(k + 3, k + 4)>>
                   \o sel0.calls \o sel1.calls \o output.calls \o cells.calls,
         address |-> address.w, input |-> input.w, output |-> output.w,
         write |-> k + 1, q |-> cells.q])))))))

----------------------------------------------------------------------------
(* components/memory.rs: sram_test, generalised to any sequence of set and
   get calls, and to driving the buses without a write strobe *)

SramVariants == {"new", "new_full_2d"}

SramBuild(variant) == IF variant = "new" THEN Sram_new ELSE Sram_new_full_2d

Addresses == 0 .. (2 ^ ADDR_SIZE - 1)

Words == 0 .. (2 ^ WORD_SIZE - 1)

\* The outputs of the q nodes of every cell, cell by cell, lane 0 first
latch_state(c, sram) ==
    [i \in 1 .. Len(sram.q) |->
        [j \in 1 .. Len(sram.q[i]) |-> get_output(c, sram.q[i][j])]]

\* The driver's record: mem is the word last set at each address, targets the
\* addresses set so far, read the word the last get of each address returned
\* since the last set (-1: none yet), prev the call the driver made before
\* the current one, q the latch state when the current call began
InitSram ==
    \E variant \in SramVariants : \E sram \in {SramBuild(variant)} :
        /\ handles_ok(sram.calls)
        /\ circuit = build(sram.calls)
        /\ dut = [variant |-> variant, address |-> sram.address,
                  input |-> sram.input, output |-> sram.output,
                  write |-> sram.write, q |-> sram.q]
        /\ pc = "next"
        /\ args = [op |-> "none", address |-> 0, val |-> 0, phase |-> 1]
        /\ result = 0
        /\ written = [mem |-> [a \in Addresses |-> 0],
                      targets |-> {},
                      read |-> [a \in Addresses |-> -1],
                      prev |-> [op |-> "none", address |-> 0],
                      q |-> latch_state(build(sram.calls), sram)]

\* Sram::set up to its first run_until_done
SramSet ==
    /\ pc = "next"
    /\ \E address \in Addresses, val \in Words :
           /\ args' = [op |-> "set", address |-> address, val |-> val, phase |-> 1]
           /\ circuit' = Wire_set(Wire_set(circuit, dut.address, address, 1),
                                  dut.input, val, 1)
           /\ written' = [written EXCEPT !.mem[address] = val,
                                         !.targets = @ \cup {address},
                                         !.read = [a \in Addresses |-> -1],
                                         !.q = latch_state(circuit, dut)]
    /\ pc' = "run"
    /\ UNCHANGED <<dut, result>>

\* Sram::set: the first run_until_done returns, write is set true
SramStrobe ==
    /\ pc = "run"
    /\ ~work_left(circuit)
    /\ args.op = "set"
    /\ args.phase = 1
    /\ circuit' = set_input(circuit, dut.write, TRUE)
    /\ args' = [args EXCEPT !.phase = 2]
    /\ UNCHANGED <<pc, dut, result, written>>

\* Sram::set: the second run_until_done returns, write is set false, run(1)
SramSetReturn ==
    /\ pc = "run"
    /\ ~work_left(circuit)
    /\ args.op = "set"
    /\ args.phase = 2
    /\ circuit' = run(set_input(circuit, dut.write, FALSE), 1)
    /\ pc' = "check"
    /\ UNCHANGED <<dut, args, result, written>>

\* Sram::get up to run_until_done
SramGet ==
    /\ pc = "next"
    /\ \E address \in Addresses :
           /\ args' = [op |-> "get", address |-> address, val |-> 0, phase |-> 1]
           /\ circuit' = Wire_set(circuit, dut.address, address, 1)
    /\ written' = [written EXCEPT !.q = latch_state(circuit, dut)]
    /\ pc' = "run"
    /\ UNCHANGED <<dut, result>>

\* Sram::get: run_until_done returns, the output wire is read
SramGetReturn ==
    /\ pc = "run"
    /\ ~work_left(circuit)
    /\ args.op = "get"
    /\ result' = Wire_read(circuit, dut.output, 1)
    /\ pc' = "check"
    /\ UNCHANGED <<circuit, dut, args, written>>

\* The driver goes on to the next call
SramLoop ==
    /\ pc = "check"
    /\ written' = [written EXCEPT
                      !.prev = [op |-> args.op, address |-> args.address]]
    /\ pc' = "next"
    /\ UNCHANGED <<circuit, dut, args, result>>

NextSram ==
    \/ SramSet \/ SramStrobe \/ SramSetReturn
    \/ SramGet \/ SramGetReturn \/ SramLoop \/ Update

SpecSram == InitSram /\ [][NextSram]_vars

\* Number of addresses set before the buses are only driven and read
HoldWrites == 1

SramHoldSet ==
    /\ Cardinality(written.targets) < HoldWrites
    /\ SramSet

\* The address and data-in buses are driven, write is left alone
SramPoke ==
    /\ pc = "next"
    /\ \E address \in Addresses, val \in Words :
           /\ args' = [op |-> "poke", address |-> address, val |-> val, phase |-> 1]
           /\ circuit' = Wire_set(Wire_set(circuit, dut.address, address, 1),
                                  dut.input, val, 1)
    /\ written' = [written EXCEPT !.q = latch_state(circuit, dut)]
    /\ pc' = "run"
    /\ UNCHANGED <<dut, result>>

\* The ticks after the buses were driven are over
SramPokeReturn ==
    /\ pc = "run"
    /\ ~work_left(circuit)
    /\ args.op = "poke"
    /\ pc' = "check"
    /\ UNCHANGED <<circuit, dut, args, result, written>>

\* The driver notes the word a get returned and goes on to the next call
SramHoldLoop ==
    /\ pc = "check"
    /\ written' = [written EXCEPT
                      !.prev = [op |-> args.op, address |-> 0],
                      !.read[args.address] =
                          IF args.op = "get" THEN result ELSE @]
    /\ pc' = "next"
    /\ UNCHANGED <<circuit, dut, args, result>>

NextSramHold ==
    \/ SramHoldSet \/ SramStrobe \/ SramSetReturn
    \/ SramPoke \/ SramPokeReturn
    \/ SramGet \/ SramGetReturn \/ SramHoldLoop \/ Update

SpecSramHold == InitSram /\ [][NextSramHold]_vars

\* C6: a get of the address the call before it set returns the word that call
\* set (the word of the latest set of that address), for both constructions.
C6_SramRoundTrip ==
    (pc = "check" /\ args.op = "get" /\ written.prev.op = "set"
     /\ written.prev.address = args.address)
        => result = written.mem[args.address]

\* C7: a get of an address set earlier, right after a set of another address,
\* still returns the word set there; and while a set of one address runs, and
\* when it returns, the latches of the cells of all other addresses are as
\* they were when it began.
C7_SramIsolation ==
    /\ (pc = "check" /\ args.op = "get" /\ args.address \in written.targets
        /\ written.prev.op = "set" /\ written.prev.address /= args.address)
           => result = written.mem[args.address]
    /\ (pc \in {"run", "check"} /\ args.op = "set")
           => \A a \in Addresses \ {args.address} :
                 a + 1 <= Len(dut.q)
                     => latch_state(circuit, dut)[a + 1] = written.q[a + 1]

\* C8: while the buses are driven and the circuit ticks with write left
\* alone (a get, or both buses driven), no latch changes, and a get returns
\* the word the last get of that address returned.
C8_SramHold ==
    /\ (pc \in {"run", "check"} /\ args.op \in {"get", "poke"})
           => latch_state(circuit, dut) = written.q
    /\ (pc = "check" /\ args.op = "get" /\ written.read[args.address] /= -1)
           => result = written.read[args.address]

\* C9: a get of an address that was never the target of a set returns 0,
\* before any set and after sets of other addresses.
C9_SramFreshZero ==
    (pc = "check" /\ args.op = "get" /\ args.address \notin written.targets)
        => result = 0

C9_Witness ==
    /\ pc = "check"
    /\ args.op = "get"
    /\ args.address \notin written.targets
    /\ \E a \in written.targets : written.mem[a] /= 0
    /\ written.prev.op = "set"
    /\ result = 0

----------------------------------------------------------------------------
(* tests/circuit_test.rs: inverter_series_test, for every chain length *)

\* Longest chain of inverters
MaxChain == 8

\* Connector::new: an Or node
Connector_new(k) == <<CreateNode("Or", k + 1)>>

\* Connector::new(builder).invert() ... .invert(), n times: node 1 is the
\* input, node i + 1 the output of the i-th inverter
ChainBuild(n) ==
    [calls |-> Connector_new(0) \o Flatten([i \in 1 .. n |-> invert(i, i)], 1),
     input |-> 1, last |-> n + 1]

\* The chain as built; the test then calls run(100)
InitChain ==
    \E n \in 1 .. MaxChain : \E b \in {ChainBuild(n)} :
        /\ handles_ok(b.calls)
        /\ circuit = build(b.calls)
        /\ dut = [n |-> n, input |-> b.input, last |-> b.last]
        /\ pc = "run"
        /\ args = [val |-> FALSE]
        /\ result = FALSE
        /\ written = <<>>

\* set_input of the external input
ChainSet ==
    /\ pc = "check"
    /\ \E val \in BOOLEAN :
           /\ args' = [val |-> val]
           /\ circuit' = set_input(circuit, dut.input, val)
    /\ pc' = "run"
    /\ UNCHANGED <<dut, result, written>>

\* The circuit is quiescent; the last stage is read
ChainRead ==
    /\ pc = "run"
    /\ ~work_left(circuit)
    /\ result' = get_output(circuit, dut.last)
    /\ pc' = "check"
    /\ UNCHANGED <<circuit, dut, args, written>>

NextChain == ChainSet \/ Update \/ ChainRead

SpecChain == InitChain /\ [][NextChain]_vars

\* C10: once the chain of n inverters is quiescent, the output of its last
\* stage is the input XOR (n mod 2).
C10_InverterChain ==
    pc = "check" => result = (args.val /= (dut.n % 2 = 1))

C10_Witness ==
    /\ pc = "check"
    /\ dut.n = MaxChain - 1
    /\ args.val = TRUE
    /\ result = (dut.n % 2 = 0)

----------------------------------------------------------------------------
(* The engine under an arbitrary controller.  The controller makes any
   sequence of node creation, connect, set_input and update calls on a fresh
   circuit and reads outputs at any time.  In SpecEngine a second fresh
   circuit, written.twin, is fed the same calls, each one after the first
   circuit has received it.  In SpecRun the controller also calls run,
   Test::run and run_until_done. *)

\* Largest number of nodes the controller creates
MaxNodes == 2

\* Largest number of edges the controller adds
MaxEdges == 2

\* Largest number of set_input calls the controller makes
MaxSets == 2

\* Largest budget the controller passes to run and Test::run
MaxBudget == 1

\* The node types the controller creates: an external input and one gate of
\* each family
NodeTypes == {"Input", "Nor", "And", "Xor"}

\* No call in progress
NoCall == [call |-> "none"]

UpdateCall == [call |-> "update"]

\* One call of the Circuit trait that takes &mut self
step(c, op) == IF op.call = "update" THEN update(c) ELSE call(c, op)

\* k consecutive update() calls
RECURSIVE updates(_, _)
updates(c0, k) ==
    Eval(c0, LAMBDA c : IF k = 0 THEN c ELSE updates(update(c), k - 1))

edge_count(c) ==
    LET RECURSIVE sum(_)
        sum(i) == IF i = 0 THEN 0 ELSE Len(c.node_children[i]) + sum(i - 1)
    IN  sum(Len(c.node_children))

\* The calls the controller can make next
EngineCalls(c, sets) ==
    LET nodes == 1 .. Len(c.node_data)
    IN  {UpdateCall}
        \cup {CreateNode(t, Len(c.node_data) + 1) :
                  t \in IF Len(c.node_data) < MaxNodes THEN NodeTypes ELSE {}}
        \cup {Connect(i, o) :
                  i \in nodes,
                  o \in IF edge_count(c) < MaxEdges THEN nodes ELSE {}}
        \cup {SetInput(n, v) :
                  n \in IF sets < MaxSets THEN nodes ELSE {}, v \in BOOLEAN}

\* RunResult::Finished / RunResult::ReachedMaxTicks
Finished(after_ticks) == [kind |-> "Finished", ticks |-> after_ticks]

ReachedMaxTicks(max_ticks) == [kind |-> "ReachedMaxTicks", ticks |-> max_ticks]

\* run that counts the pass in which it finds no work left as a tick
RECURSIVE run_result_counts_last(_, _, _)
run_result_counts_last(c0, ticks, max_ticks) ==
    Eval(c0, LAMBDA c :
        IF ticks >= max_ticks THEN ReachedMaxTicks(max_ticks)
        ELSE IF work_left(c)
             THEN run_result_counts_last(update(c), ticks + 1, max_ticks)
        ELSE Finished(ticks + 1))

\* run(max_ticks): the value returned, ticks being the loop variable
RECURSIVE run_result(_, _, _)
run_result(c0, ticks, max_ticks) ==
    Eval(c0, LAMBDA c :
        IF ticks >= max_ticks THEN ReachedMaxTicks(max_ticks)
        ELSE IF work_left(c) THEN run_result(update(c), ticks + 1, max_ticks)
        ELSE Finished(ticks))

InitEngine ==
    /\ circuit = new
    /\ pc = "idle"
    /\ dut = <<>>
    /\ args = NoCall
    /\ result = [kind |-> "get_output", val |-> FALSE]
    /\ written = [twin |-> new, before |-> new, updates |-> 0, sets |-> 0,
                  ticks |-> 0, ran |-> FALSE]

\* The controller makes one call on the circuit
EngCall ==
    /\ pc = "idle"
    /\ \E op \in EngineCalls(circuit, written.sets) :
           /\ args' = op
           /\ circuit' = step(circuit, op)
           /\ written' = [written EXCEPT
                             !.before = circuit,
                             !.updates = IF op.call = "update"
                                         THEN (@ + 1) % TickModulus ELSE @,
                             !.sets = IF op.call = "set_input"
                                      THEN @ + 1 ELSE @]
    /\ pc' = "twin"
    /\ UNCHANGED <<dut, result>>

\* The same call on the second circuit
EngTwin ==
    /\ pc = "twin"
    /\ written' = [written EXCEPT !.twin = step(@, args), !.before = circuit]
    /\ args' = NoCall
    /\ pc' = "idle"
    /\ UNCHANGED <<circuit, dut, result>>

\* get_output of any node, at any time
EngRead ==
    /\ pc \in {"idle", "twin"}
    /\ \E n \in 1 .. Len(circuit.node_data) :
           result' = [kind |-> "get_output", val |-> get_output(circuit, n)]
    /\ result' /= result
    /\ UNCHANGED <<circuit, pc, dut, args, written>>

NextEngine == EngCall \/ EngTwin \/ EngRead

SpecEngine == InitEngine /\ [][NextEngine]_vars

\* The controller makes one call on the circuit (no second circuit here)
RunCall ==
    /\ pc = "idle"
    /\ \E op \in EngineCalls(circuit, written.sets) :
           /\ circuit' = step(circuit, op)
           /\ written' = [written EXCEPT
                             !.twin = step(circuit, op),
                             !.before = step(circuit, op),
                             !.updates = IF op.call = "update"
                                         THEN (@ + 1) % TickModulus ELSE @,
                             !.sets = IF op.call = "set_input"
                                      THEN @ + 1 ELSE @]
    /\ UNCHANGED <<pc, dut, args, result>>

\* run(max_ticks), Test::run(max_ticks, false) or run_until_done() is called
EngRunCall ==
    /\ pc = "idle"
    /\ \E api \in {"run", "Test_run", "run_until_done"} :
       \E max_ticks \in IF api = "run_until_done" THEN {0} ELSE 0 .. MaxBudget :
           /\ args' = [call |-> api, max_ticks |-> max_ticks]
           /\ pc' = api
    /\ written' = [written EXCEPT !.before = circuit, !.ticks = 0, !.ran = FALSE]
    /\ UNCHANGED <<circuit, dut, result>>

\* run: one iteration of for ticks in 0..max_ticks that finds work left
RunUpdate ==
    /\ pc = "run"
    /\ written.ticks < args.max_ticks
    /\ work_left(circuit)
    /\ circuit' = update(circuit)
    /\ written' = [written EXCEPT !.updates = (@ + 1) % TickModulus,
                                  !.ticks = @ + 1,
                                  !.ran = TRUE]
    /\ UNCHANGED <<pc, dut, args, result>>

\* run: return RunResult::Finished { after_ticks: ticks }
RunFinished ==
    /\ pc = "run"
    /\ written.ticks < args.max_ticks
    /\ ~work_left(circuit)
    /\ result' = Finished(written.ticks)
    /\ pc' = "returned"
    /\ UNCHANGED <<circuit, dut, args, written>>

\* run: the loop is over, RunResult::ReachedMaxTicks { max_ticks }
RunReachedMaxTicks ==
    /\ pc = "run"
    /\ written.ticks >= args.max_ticks
    /\ result' = ReachedMaxTicks(args.max_ticks)
    /\ pc' = "returned"
    /\ UNCHANGED <<circuit, dut, args, written>>

\* Test::run: one iteration of for ticks in 0..(max_ticks + 1) in which
\* self.circuit.run(1) returns ReachedMaxTicks
TestRunIteration ==
    /\ pc = "Test_run"
    /\ written.ticks < args.max_ticks + 1
    /\ run_result(circuit, 0, 1).kind = "ReachedMaxTicks"
    /\ circuit' = run(circuit, 1)
    /\ written' = [written EXCEPT
                      !.updates = IF work_left(circuit)
                                  THEN (@ + 1) % TickModulus ELSE @,
                      !.ticks = @ + 1,
                      !.ran = @ \/ work_left(circuit)]
    /\ UNCHANGED <<pc, dut, args, result>>

\* Test::run: self.circuit.run(1) returns Finished
TestRunFinished ==
    /\ pc = "Test_run"
    /\ written.ticks < args.max_ticks + 1
    /\ run_result(circuit, 0, 1).kind = "Finished"
    /\ result' = Finished(written.ticks)
    /\ pc' = "returned"
    /\ UNCHANGED <<circuit, dut, args, written>>

\* Test::run: the loop is over
TestRunReachedMaxTicks ==
    /\ pc = "Test_run"
    /\ written.ticks >= args.max_ticks + 1
    /\ result' = ReachedMaxTicks(args.max_ticks)
    /\ pc' = "returned"
    /\ UNCHANGED <<circuit, dut, args, written>>

\* run_until_done: one iteration of while self.work_left()
RunUntilDoneUpdate ==
    /\ pc = "run_until_done"
    /\ work_left(circuit)
    /\ circuit' = update(circuit)
    /\ written' = [written EXCEPT !.updates = (@ + 1) % TickModulus,
                                  !.ran = TRUE]
    /\ UNCHANGED <<pc, dut, args, result>>

\* run_until_done returns
RunUntilDoneReturn ==
    /\ pc = "run_until_done"
    /\ ~work_left(circuit)
    /\ pc' = "returned"
    /\ UNCHANGED <<circuit, dut, args, result, written>>

\* The controller goes on after run, Test::run or run_until_done
EngResume ==
    /\ pc = "returned"
    /\ pc' = "idle"
    /\ args' = NoCall
    /\ written' = [written EXCEPT !.twin = circuit, !.before = circuit,
                                  !.ticks = 0, !.ran = FALSE]
    /\ result' = [kind |-> "get_output", val |-> FALSE]
    /\ UNCHANGED <<circuit, dut>>

NextRun ==
    \/ RunCall \/ EngRunCall
    \/ RunUpdate \/ RunFinished \/ RunReachedMaxTicks
    \/ TestRunIteration \/ TestRunFinished \/ TestRunReachedMaxTicks
    \/ RunUntilDoneUpdate \/ RunUntilDoneReturn \/ EngResume

SpecRun == InitEngine /\ [][NextRun]_vars

C12_RunUntilDone ==
    (pc = "returned" /\ args.call = "run_until_done") =>
        /\ circuit.update_head = NULL
        /\ circuit.changed_head = NULL
        /\ (written.before.update_head = NULL
               /\ written.before.changed_head = NULL)
              => (~written.ran /\ circuit = written.before)

C12_Witness ==
    /\ pc = "returned"
    /\ args.call = "run_until_done"
    /\ written.ran
    /\ written.before.update_head = NULL
    /\ written.before.changed_head /= NULL
    /\ circuit.update_head = NULL
    /\ circuit.changed_head = NULL

\* C13: run(max_ticks) (and Test::run) returns ReachedMaxTicks only when
\* work is still left on return; and if the circuit is quiescent after k <=
\* max_ticks updates (k the least such number), the call returns
\* Finished{after_ticks: k} having made exactly k updates.
C13_RunResult ==
    (pc = "returned" /\ args.call \in {"run", "Test_run"}) =>
        /\ result.kind = "ReachedMaxTicks" => work_left(circuit)
        /\ \A k \in 0 .. args.max_ticks :
               (/\ ~work_left(updates(written.before, k))
                /\ \A j \in 0 .. k - 1 : work_left(updates(written.before, j)))
               => (result = Finished(k) /\ circuit = updates(written.before, k))

\* C14: the tick counter is the number of update() calls made so far; an
\* update() call adds exactly one to it, work or no work, and no other call
\* changes it.
C14_TickCountsUpdates ==
    /\ circuit.tick = written.updates
    /\ pc = "twin" =>
           circuit.tick = IF args.call = "update"
                          THEN (written.before.tick + 1) % TickModulus
                          ELSE written.before.tick

C14_Witness ==
    /\ pc = "twin"
    /\ args.call = "update"
    /\ ~work_left(written.before)
    /\ Len(circuit.node_data) = MaxNodes
    /\ written.before.tick = 0
    /\ circuit.tick = 1

\* C15: set_input(id, v) with v the current output of the node changes nothing
\* of the circuit: outputs, counters, both work lists and the tick counter.
C15_SetInputNoOp ==
    (/\ pc = "twin"
     /\ args.call = "set_input"
     /\ written.before.node_data[args.node_id].output = args.val)
    => circuit = written.before

C15_Witness ==
    /\ pc = "twin"
    /\ args.call = "set_input"
    /\ args.val = TRUE
    /\ written.before.node_data[args.node_id].output = TRUE
    /\ written.before.node_data[args.node_id].next_update = NULL
    /\ written.before.update_head /= args.node_id
    /\ circuit = written.before

\* C16: update() on a circuit with no work left changes nothing but the tick
\* counter: every output, every counter and both work lists stay as they are.
C16_QuiescenceStable ==
    (pc = "twin" /\ args.call = "update" /\ ~work_left(written.before))
    => circuit = [written.before EXCEPT !.tick = (@ + 1) % TickModulus]

C16_Witness ==
    /\ pc = "twin"
    /\ args.call = "update"
    /\ ~work_left(written.before)
    /\ edge_count(circuit) = MaxEdges
    /\ \E n \in 1 .. Len(circuit.node_data) :
           /\ circuit.node_data[n].inputs /= 0
           /\ circuit.node_data[n].output
    /\ circuit = [written.before EXCEPT !.tick = (@ + 1) % TickModulus]

----------------------------------------------------------------------------
(* A ring of inverters: n Nor nodes, node i feeding node i + 1 and node n
   feeding node 1 (for n = 1 a Nor connected to itself).  The edges are added
   in any order, with no update() in between; then the controller ticks. *)

\* Largest ring
MaxRing == 5

RingSizes == {n \in 1 .. MaxRing : n % 2 = 1}

RingBuild(n) == [i \in 1 .. n |-> CreateNode("Nor", i)]

InitRing ==
    \E n \in RingSizes :
        /\ handles_ok(RingBuild(n))
        /\ circuit = build(RingBuild(n))
        /\ dut = [n |-> n]
        /\ pc = "connect"
        /\ args = [max_ticks |-> -1]
        /\ result = Finished(0)
        /\ written = [connected |-> {}]

\* connect(i, i + 1), or connect(n, 1), for an edge not added yet
RingConnect ==
    /\ pc = "connect"
    /\ \E i \in (1 .. dut.n) \ written.connected :
           /\ circuit' = connect(circuit, i, (i % dut.n) + 1)
           /\ written' = [connected |-> written.connected \cup {i}]
    /\ UNCHANGED <<pc, dut, args, result>>

\* The ring is closed; the controller starts to run it
RingStart ==
    /\ pc = "connect"
    /\ written.connected = 1 .. dut.n
    /\ pc' = "run"
    /\ UNCHANGED <<circuit, dut, args, result, written>>

\* run(max_ticks) on the ring
RingRun ==
    /\ pc = "run"
    /\ \E max_ticks \in 0 .. MaxBudget + 2 :
           /\ args' = [max_ticks |-> max_ticks]
           /\ result' = run_result(circuit, 0, max_ticks)
           /\ circuit' = run(circuit, max_ticks)
    /\ UNCHANGED <<pc, dut, written>>

NextRing == RingConnect \/ RingStart \/ Update \/ RingRun

SpecRing == InitRing /\ [][NextRing]_vars

----------------------------------------------------------------------------
(* Unit delay: a one-lane wire of an external input followed by a chain of
   single-input gates made with Wire::buffer and Wire::invert. *)

\* Largest number of gates in the chain
MaxStages == 3

\* The wire and stage i made from stage i - 1 by buffer or invert
RECURSIVE DelayBuild(_, _)
DelayBuild(kinds, i) ==
    IF i = 0 THEN Wire_new(0, 1)
    ELSE LET prev == DelayBuild(kinds, i - 1)
             gate == map_gate(prev.k, prev.w, kinds[i])
         IN  [calls |-> prev.calls \o gate.calls, w |-> gate.w, k |-> gate.k]

InitDelay ==
    \E k \in 1 .. MaxStages : \E kinds \in [1 .. k -> {"Or", "Nor"}] :
    \E b \in {DelayBuild(kinds, k)} :
        /\ handles_ok(b.calls)
        /\ circuit = build(b.calls)
        /\ dut = [k |-> k, kinds |-> kinds, input |-> 1,
                  gates |-> [i \in 1 .. k |-> i + 1]]
        /\ pc = "run"
        /\ args = [val |-> FALSE]
        /\ result = FALSE
        /\ written = [old |-> [i \in 1 .. k |-> FALSE], n |-> 0]

\* run_until_done returns: the circuit is quiescent
DelayQuiescent ==
    /\ pc = "run"
    /\ ~work_left(circuit)
    /\ pc' = "quiescent"
    /\ UNCHANGED <<circuit, dut, args, result, written>>

\* A set_input that changes the input of the quiescent circuit
DelaySet ==
    /\ pc = "quiescent"
    /\ args' = [val |-> ~get_output(circuit, dut.input)]
    /\ circuit' = set_input(circuit, dut.input, ~get_output(circuit, dut.input))
    /\ written' = [old |-> [i \in 1 .. dut.k |->
                               get_output(circuit, dut.gates[i])],
                   n |-> 0]
    /\ pc' = "delay"
    /\ UNCHANGED <<dut, result>>

\* The next update() after the set_input, work left or not
DelayUpdate ==
    /\ pc = "delay"
    /\ written.n <= dut.k
    /\ circuit' = update(circuit)
    /\ written' = [written EXCEPT !.n = @ + 1]
    /\ UNCHANGED <<pc, dut, args, result>>

\* The controller stops counting once no work is left
DelayDone ==
    /\ pc = "delay"
    /\ ~work_left(circuit)
    /\ pc' = "quiescent"
    /\ UNCHANGED <<circuit, dut, args, result, written>>

NextDelay == Update \/ DelayQuiescent \/ DelaySet \/ DelayUpdate \/ DelayDone

SpecDelay == InitDelay /\ [][NextDelay]_vars

\* C18: after a set_input that changes the input of the quiescent chain and
\* n further update() calls, gates 1 .. n have their new (flipped) output and
\* gates n + 1 .. k still have their old one: gate i changes during exactly
\* the i-th update.
C18_UnitDelay ==
    pc = "delay" =>
        \A i \in 1 .. dut.k :
            get_output(circuit, dut.gates[i])
                = (written.old[i] /= (i <= written.n))

C18_Witness ==
    /\ pc = "delay"
    /\ dut.k = MaxStages
    /\ written.n = MaxStages - 1
    /\ dut.kinds[MaxStages] = "Nor"
    /\ dut.kinds[1] = "Or"
    /\ args.val = TRUE
    /\ get_output(circuit, dut.gates[1]) = TRUE
    /\ get_output(circuit, dut.gates[MaxStages]) = written.old[MaxStages]

----------------------------------------------------------------------------
(* Wire::set and Wire::read on a wire of external inputs *)

\* Largest number of lanes of the wire that is set and read
MaxWire == 3

InitWire ==
    \E n \in 1 .. MaxWire : \E b \in {Wire_new(0, n)} :
        /\ handles_ok(b.calls)
        /\ circuit = build(b.calls)
        /\ dut = [n |-> n, wire |-> b.w]
        /\ pc = "check"
        /\ args = [val |-> 0]
        /\ result = 0
        /\ written = <<>>

\* wire.set(circuit, val)
WireSet ==
    /\ pc = "check"
    /\ \E val \in 0 .. (2 ^ dut.n - 1) :
           /\ args' = [val |-> val]
           /\ circuit' = Wire_set(circuit, dut.wire, val, 1)
    /\ pc' = "run"
    /\ UNCHANGED <<dut, result, written>>

\* wire.read(circuit), straight after the set or after any number of ticks
WireRead ==
    /\ pc = "run"
    /\ result' = Wire_read(circuit, dut.wire, 1)
    /\ pc' = "check"
    /\ UNCHANGED <<circuit, dut, args, written>>

NextWire == WireSet \/ Update \/ WireRead

SpecWire == InitWire /\ [][NextWire]_vars

\* C19: Wire::set(v) followed by Wire::read returns v, for every v below
\* 2^N; the set has driven lane i to bit i of v.
C19_WireRoundTrip ==
    pc = "check" =>
        /\ result = args.val
        /\ \A i \in 1 .. dut.n :
               get_output(circuit, dut.wire[i]) = bit(args.val, i - 1)

----------------------------------------------------------------------------
(* Wire::decode over a wire of external inputs.  The controller drives the
   lanes with set_input, each lane at most once between two ticks, and ticks
   at any time. *)

\* Largest number of address lanes of the decoder
MaxLanes == 2

DecodeBuild(n, OUTPUTS) ==
    Eval(Wire_new(0, n), LAMBDA address :
    Eval(decode(address.k, address.w, OUTPUTS), LAMBDA lines :
        [calls |-> address.calls \o lines.calls,
         address |-> address.w, lines |-> lines.w]))

InitDecode ==
    \E n \in 1 .. MaxLanes : \E OUTPUTS \in 1 .. 2 ^ n :
    \E b \in {DecodeBuild(n, OUTPUTS)} :
        /\ handles_ok(b.calls)
        /\ circuit = build(b.calls)
        /\ dut = [n |-> n, OUTPUTS |-> OUTPUTS,
                  address |-> b.address, lines |-> b.lines]
        /\ pc = "drive"
        /\ args = [lane |-> 1, val |-> FALSE]
        /\ result = FALSE
        /\ written = [driven |-> {}]

\* set_input of an address lane not driven since the last tick
DecodeSet ==
    /\ pc = "drive"
    /\ \E lane \in (1 .. dut.n) \ written.driven : \E val \in BOOLEAN :
           /\ args' = [lane |-> lane, val |-> val]
           /\ circuit' = set_input(circuit, dut.address[lane], val)
           /\ written' = [driven |-> written.driven \cup {lane}]
    /\ UNCHANGED <<pc, dut, result>>

\* update()
DecodeUpdate ==
    /\ pc = "drive"
    /\ work_left(circuit)
    /\ circuit' = update(circuit)
    /\ written' = [driven |-> {}]
    /\ UNCHANGED <<pc, dut, args, result>>

NextDecode == DecodeSet \/ DecodeUpdate

SpecDecode == InitDecode /\ [][NextDecode]_vars

\* The value the address lanes hold
address_value(c, address) == Wire_read(c, address, 1)

----------------------------------------------------------------------------
(* components/mux.rs: create_n_to_1_mux over buses of external inputs.  The
   controller drives the data and selector lanes with set_input, each lane at
   most once between two ticks, and ticks at any time. *)

\* Lanes of a data bus, largest number of data buses of the multiplexer and
\* largest number of selector lanes
MuxBits == 1
MaxMux == 2
MaxSelect == 1

\* create_n_to_1_mux::<BITS, N, SELECT_BITS>: the assertion, the output wire,
\* the decoded selector, then per input the enabled copy connected to output
create_n_to_1_mux(k, inputs, select) ==
    IF ~(Len(inputs) <= 2 ^ Len(select)) THEN Panic
    ELSE
    Eval(Wire_new(k, MuxBits), LAMBDA output :
    Eval(decode(output.k, select, Len(inputs)), LAMBDA decoded :
        [calls |-> output.calls \o decoded.calls
                   \o Flatten([i \in 1 .. Len(inputs) |->
                         Eval(Wire_enable(decoded.k + (i - 1) * MuxBits,
                                          inputs[i], decoded.w[i]),
                              LAMBDA enabled :
                                  enabled.calls
                                  \o Wire_connect(enabled.w, output.w))], 1),
         w |-> output.w,
         k |-> decoded.k + Len(inputs) * MuxBits]))

\* N data buses, the selector bus and the multiplexer over them
MuxBuild(N, SELECT_BITS) ==
    Eval([i \in 1 .. N |-> Wire_new((i - 1) * MuxBits, MuxBits)], LAMBDA ins :
    Eval(Wire_new(N * MuxBits, SELECT_BITS), LAMBDA select :
    Eval(create_n_to_1_mux(select.k, [i \in 1 .. N |-> ins[i].w], select.w),
         LAMBDA mux :
        [calls |-> Flatten([i \in 1 .. N |-> ins[i].calls], 1)
                   \o select.calls \o mux.calls,
         inputs |-> [i \in 1 .. N |-> ins[i].w],
         select |-> select.w, output |-> mux.w])))

InitMux ==
    \E SELECT_BITS \in 1 .. MaxSelect :
    \E N \in 1 .. (IF MaxMux <= 2 ^ SELECT_BITS THEN MaxMux ELSE 2 ^ SELECT_BITS) :
    \E b \in {MuxBuild(N, SELECT_BITS)} :
        /\ handles_ok(b.calls)
        /\ circuit = build(b.calls)
        /\ dut = [N |-> N, inputs |-> b.inputs, select |-> b.select,
                  output |-> b.output]
        /\ pc = "drive"
        /\ args = [node_id |-> 1, val |-> FALSE]
        /\ result = FALSE
        /\ written = [driven |-> {}]

\* set_input of a data or selector lane not driven since the last tick
MuxSet ==
    /\ pc = "drive"
    /\ \E node_id \in (1 .. dut.N * MuxBits + Len(dut.select)) \ written.driven :
       \E val \in BOOLEAN :
           /\ circuit' = set_input(circuit, node_id, val)
           /\ written' = [driven |-> written.driven \cup {node_id}]
    /\ UNCHANGED <<pc, dut, args, result>>

\* update()
MuxUpdate ==
    /\ pc = "drive"
    /\ work_left(circuit)
    /\ circuit' = update(circuit)
    /\ written' = [driven |-> {}]
    /\ UNCHANGED <<pc, dut, args, result>>

NextMux == MuxSet \/ MuxUpdate

SpecMux == InitMux /\ [][NextMux]_vars

----------------------------------------------------------------------------
(* Node creation at any moment of the life of a circuit: the two-input gate
   circuits of gate_test_gen under their driver, with nodes of any type
   created between any two calls. *)

NodeTypesAll == {"Or", "Nor", "And", "Nand", "Xor", "Xnor", "Input"}

\* or() / nor() / and() / nand() / xor() / xnor() / input(); written keeps
\* the type asked for
GateCreate ==
    /\ Len(circuit.node_data) < 3 + MaxNodes
    /\ \E node_type \in NodeTypesAll :
           /\ circuit' = create_node(circuit, node_type)
           /\ written' = <<node_type>>
    /\ UNCHANGED <<pc, dut, args, result>>

NextBirth ==
    GateNext \/ GateSetA \/ GateSetB \/ Update \/ GateRead \/ GateLoop
    \/ GateCreate

SpecBirth == InitGate /\ [][NextBirth]_vars

\* C22: a created node has inputs 0, inputs_delta 0, output = inverted, no
\* children and is on neither work list; a fresh Or, Nand, Xor or input reads
\* false and a fresh Nor, And or Xnor reads true; and the creation changes no
\* existing node, no work list, not work_left() and not the tick.
C22_BirthState ==
    [][Len(circuit'.node_data) > Len(circuit.node_data) =>
        LET n == Len(circuit.node_data)
            id == n + 1
        IN  /\ Len(circuit'.node_data) = id
            /\ circuit'.node_data[id].inputs = 0
            /\ circuit'.node_data[id].output = circuit'.node_data[id].inverted
            /\ circuit'.node_data[id].next_update = NULL
            /\ circuit'.node_update_data[id] = [next_changed |-> NULL,
                                                inputs_delta |-> 0]
            /\ circuit'.node_children[id] = <<>>
            /\ circuit'.update_head /= id
            /\ circuit'.changed_head /= id
            /\ \A i \in 1 .. n :
                   /\ circuit'.node_data[i].next_update /= id
                   /\ circuit'.node_update_data[i].next_changed /= id
                   /\ circuit'.node_data[i] = circuit.node_data[i]
                   /\ circuit'.node_update_data[i] = circuit.node_update_data[i]
                   /\ circuit'.node_children[i] = circuit.node_children[i]
            /\ get_output(circuit', id) = (written'[1] \in {"Nor", "And", "Xnor"})
            /\ circuit'.update_head = circuit.update_head
            /\ circuit'.changed_head = circuit.changed_head
            /\ work_left(circuit') = work_left(circuit)
            /\ circuit'.tick = circuit.tick]_vars

C22_Witness ==
    /\ Len(circuit.node_data) = 3 + MaxNodes
    /\ written = <<"And">>
    /\ get_output(circuit, 3 + MaxNodes)
    /\ circuit.node_data[3 + MaxNodes].inputs = 0
    /\ work_left(circuit)

----------------------------------------------------------------------------
(* The builders with a size assertion, called with sizes on both sides of
   their constraint on a circuit that already holds nodes.  A panic ends the
   program. *)

\* Most nodes a builder is started on
MaxBuilt == 6

\* Whether a builder panicked instead of returning
panicked(b) == "panicked" \in DOMAIN b

\* The outcome of a builder that made the calls of b: the circuit after them,
\* the circuit before them, and a program that ended if b is a panic
Built(ctor, violates, b) ==
    /\ circuit' = exec(circuit, b.calls, 1, Len(b.calls))
    /\ pc' = (IF panicked(b) THEN "panicked" ELSE "idle")
    /\ args' = [ctor |-> ctor, violates |-> violates]
    /\ written' = [before |-> circuit]
    /\ UNCHANGED <<dut, result>>

InitBuilt ==
    /\ circuit = build(Wire_new(0, 1).calls)
    /\ pc = "idle"
    /\ dut = <<>>
    /\ args = [ctor |-> "Wire::new", violates |-> FALSE]
    /\ result = FALSE
    /\ written = [before |-> new]

\* Wire::new of 1 .. MaxLanes lanes
BuiltWire ==
    /\ pc = "idle"
    /\ Len(circuit.node_data) < MaxBuilt
    /\ \E n \in 1 .. MaxLanes :
           Built("Wire::new", FALSE, Wire_new(Len(circuit.node_data), n))

\* decode::<OUTPUTS> of the wire of the first N nodes
BuiltDecode ==
    /\ pc = "idle"
    /\ Len(circuit.node_data) <= MaxBuilt
    /\ \E N \in 1 .. MaxLanes : \E OUTPUTS \in 1 .. 2 ^ MaxLanes + 1 :
           /\ N <= Len(circuit.node_data)
           /\ Built("decode", OUTPUTS > 2 ^ N,
                    decode(Len(circuit.node_data), [i \in 1 .. N |-> i], OUTPUTS))

\* create_n_to_1_mux::<MuxBits, N, SELECT_BITS> over the buses of the first
\* nodes
BuiltMux ==
    /\ pc = "idle"
    /\ Len(circuit.node_data) <= MaxBuilt
    /\ \E N \in 1 .. 2 ^ MaxSelect + 1 : \E SELECT_BITS \in 1 .. MaxSelect :
           /\ MuxBits <= Len(circuit.node_data)
           /\ SELECT_BITS <= Len(circuit.node_data)
           /\ Built("create_n_to_1_mux", N > 2 ^ SELECT_BITS,
                    create_n_to_1_mux(Len(circuit.node_data),
                                      [i \in 1 .. N |-> [j \in 1 .. MuxBits |-> j]],
                                      [i \in 1 .. SELECT_BITS |-> i]))

\* slice::<START, LEN> of the wire of the first N nodes
BuiltSlice ==
    /\ pc = "idle"
    /\ \E N \in 1 .. MaxLanes : \E START \in 0 .. MaxLanes, LEN \in 0 .. MaxLanes :
           /\ N <= Len(circuit.node_data)
           /\ Built("slice", START + LEN > N,
                    slice([i \in 1 .. N |-> i], START, LEN))

\* RippleCarryAdder::<bits>::new with node 1 as its carry-in
BuiltRca ==
    /\ pc = "idle"
    /\ Len(circuit.node_data) <= MaxBuilt
    /\ \E bits \in 0 .. BITS :
           Built("RippleCarryAdder::new", bits = 0,
                 RippleCarryAdder_new(bits, Len(circuit.node_data), 1))

NextBuilt == BuiltWire \/ BuiltDecode \/ BuiltMux \/ BuiltSlice \/ BuiltRca

SpecBuilt == InitBuilt /\ [][NextBuilt]_vars

\* C23: a builder called with sizes that violate its constraint (decode with
\* OUTPUTS > 2^N, create_n_to_1_mux with N > 2^SELECT_BITS, slice with
\* START + LEN > BITS, RippleCarryAdder of 0 bits) panics, and the circuit is
\* the one it was called on: no node and no edge was created.
C23_AssertAborts ==
    args.violates =>
        /\ pc = "panicked"
        /\ circuit = written.before

C23_Witness ==
    /\ args.violates
    /\ args.ctor = "RippleCarryAdder::new"
    /\ pc = "panicked"
    /\ Len(circuit.node_data) = MaxBuilt
    /\ \E i \in 1 .. MaxBuilt : circuit.node_children[i] /= <<>>

----------------------------------------------------------------------------
(* One gate and MaxFan external inputs.  The controller connects an input to
   the gate (each input once), drives an input with set_input and ticks, in
   any order.  written records the circuit before the last call, the inputs
   whose output a set_input changed since the last tick, whether some input
   was so changed twice between two ticks, and whether some edge was added
   while its producer was on the propagate list. *)

\* Number of external inputs
MaxFan == 2

\* visits of a loop that leaves the link of the node it visits in place
RECURSIVE visits_keeps_links(_, _, _)
visits_keeps_links(next, node_id, n) ==
    IF node_id = NULL \/ n = 0 THEN <<>>
    ELSE <<node_id>> \o visits_keeps_links(next, next[node_id], n - 1)

\* The node ids a loop of update visits, in order, when it starts at node_id
\* with the links next: each visit takes the node's link and resets it to
\* NULL, and the loop ends at NULL.  A visit to a node whose link is NULL ends
\* the loop, so a loop over n links makes at most n + 1 visits.
RECURSIVE visits(_, _, _)
visits(next, node_id, n) ==
    IF node_id = NULL \/ n = 0 THEN <<>>
    ELSE <<node_id>>
         \o visits([next EXCEPT ![node_id] = NULL], next[node_id], n - 1)

\* The visits of the first loop of update(c): the propagate list of c
propagate_visits(c) ==
    visits([i \in 1 .. Len(c.node_data) |-> c.node_data[i].next_update],
           c.update_head, Len(c.node_data) + 1)

\* The visits of the second loop of an update that enters it with circuit c:
\* the recompute list of c
recompute_visits(c) ==
    visits([i \in 1 .. Len(c.node_data) |-> c.node_update_data[i].next_changed],
           c.changed_head, Len(c.node_data) + 1)

\* The edges into node: the pairs <<p, i>> with node the i-th child of p
producers(c, node) ==
    UNION {{<<p, i>> : i \in {j \in 1 .. Len(c.node_children[p]) :
                                 c.node_children[p][j] = node}} :
              p \in 1 .. Len(c.node_children)}

\* The edges into node whose producer outputs true
true_producers(c, node) == {e \in producers(c, node) : is_active(c, e[1])}

\* The boolean function of a gate of type kind with k producers, t of them true
gate_function(kind, k, t) ==
    CASE kind = "Or"   -> t > 0
      [] kind = "Nor"  -> t = 0
      [] kind = "And"  -> t = k
      [] kind = "Nand" -> t < k
      [] kind = "Xor"  -> t % 2 = 1
      [] kind = "Xnor" -> t % 2 = 0

\* The gate, then the inputs
FanBuild(kind) ==
    [calls |-> <<CreateNode(kind, 1)>>
               \o [i \in 1 .. MaxFan |-> CreateNode("Input", 1 + i)],
     out |-> 1, inputs |-> [i \in 1 .. MaxFan |-> 1 + i]]

InitFan ==
    \E kind \in GateKinds : \E b \in {FanBuild(kind)} :
        /\ handles_ok(b.calls)
        /\ circuit = build(b.calls)
        /\ dut = [kind |-> kind, out |-> b.out, inputs |-> b.inputs]
        /\ pc = "idle"
        /\ args = NoCall
        /\ result = FALSE
        /\ written = [before |-> new, sets |-> 0, driven |-> {},
                      twice |-> FALSE, pending |-> FALSE]

\* connect(input, out) for an input not yet connected
FanConnect ==
    /\ pc = "idle"
    /\ \E i \in 1 .. MaxFan :
           /\ producers(circuit, dut.out) \cap ({dut.inputs[i]} \X {1}) = {}
           /\ args' = Connect(dut.inputs[i], dut.out)
           /\ circuit' = connect(circuit, dut.inputs[i], dut.out)
           /\ written' = [written EXCEPT
                  !.before = circuit,
                  !.pending = @ \/ \E v \in DOMAIN propagate_visits(circuit) :
                                       propagate_visits(circuit)[v]
                                           = dut.inputs[i]]
    /\ UNCHANGED <<pc, dut, result>>

\* set_input(input, val)
FanSet ==
    /\ pc = "idle"
    /\ written.sets < MaxSets
    /\ \E i \in 1 .. MaxFan : \E val \in BOOLEAN :
           LET changes == is_active(circuit, dut.inputs[i]) /= val
           IN  /\ args' = SetInput(dut.inputs[i], val)
               /\ circuit' = set_input(circuit, dut.inputs[i], val)
               /\ written' = [written EXCEPT
                      !.before = circuit,
                      !.sets = @ + 1,
                      !.driven = IF changes THEN @ \cup {i} ELSE @,
                      !.twice = @ \/ (changes /\ i \in written.driven)]
    /\ UNCHANGED <<pc, dut, result>>

\* update()
FanUpdate ==
    /\ pc = "idle"
    /\ work_left(circuit)
    /\ args' = UpdateCall
    /\ circuit' = update(circuit)
    /\ written' = [written EXCEPT !.before = circuit, !.driven = {}]
    /\ UNCHANGED <<pc, dut, result>>

NextFan == FanConnect \/ FanSet \/ FanUpdate

SpecFan == InitFan /\ [][NextFan]_vars

\* C24: whenever the circuit is quiescent, after any sequence of set_input on
\* the external inputs interleaved with update(), several set_input on one
\* input between two ticks included, the gate's output equals its boolean
\* function of its producers' current outputs.  (Edges added while their
\* producer is on the propagate list are left out: C30.)
C24_CombinationalConsistency ==
    (~work_left(circuit) /\ ~written.pending) =>
        get_output(circuit, dut.out)
            = gate_function(dut.kind,
                            Cardinality(producers(circuit, dut.out)),
                            Cardinality(true_producers(circuit, dut.out)))

\* C25: a node is linked into the propagate list at most once and into the
\* recompute list at most once, so an update visits it at most once in its
\* first loop and at most once in its second.
C25_VisitedOncePerPhase ==
    LET first == propagate_visits(circuit)
        second == recompute_visits(propagate([c |-> [circuit EXCEPT !.update_head = NULL],
                                              node_id |-> circuit.update_head]))
    IN  /\ \A i, j \in DOMAIN first : first[i] = first[j] => i = j
        /\ \A i, j \in DOMAIN second : second[i] = second[j] => i = j

\* C26: between ticks a node's next_update is NULL iff the node is not on the
\* propagate list, and its next_changed is NULL iff it is not on the
\* recompute list.
C26_NullIffNotListed ==
    \A n \in 1 .. Len(circuit.node_data) :
        /\ circuit.node_data[n].next_update = NULL
              <=> ~\E i \in DOMAIN propagate_visits(circuit) :
                      propagate_visits(circuit)[i] = n
        /\ circuit.node_update_data[n].next_changed = NULL
              <=> ~\E i \in DOMAIN recompute_visits(circuit) :
                      recompute_visits(circuit)[i] = n

----------------------------------------------------------------------------
(* The counters and outputs of the gate circuits of gate_test_gen under their
   driver (SpecGate): two external inputs connected to the gate on the fresh
   circuit, driven at most once each between two runs to quiescence. *)

----------------------------------------------------------------------------
(* The output of a node against its counter, under any calls (SpecFan) *)

\* C28 as stated: between ticks every node, external inputs included, has
\* output == inverted XOR (inputs != 0), or inverted XOR (inputs & 1) for
\* XorXnor.
C28_OutputMatchesCounter ==
    \A n \in 1 .. Len(circuit.node_data) :
        circuit.node_data[n].output
            = (circuit.node_data[n].inverted
                 /= (IF circuit.node_data[n].gate_type = "XorXnor"
                     THEN circuit.node_data[n].inputs % 2 = 1
                     ELSE circuit.node_data[n].inputs /= 0))

\* C28 amended: between ticks every node that was never the target of
\* set_input has output == inverted XOR (inputs != 0), or inverted XOR
\* (inputs & 1) for XorXnor; an external input has inputs = 0 whatever its
\* output.
C28_OutputMatchesCounterOfGates ==
    /\ LET gate == circuit.node_data[dut.out]
       IN  gate.output = (gate.inverted /= (IF gate.gate_type = "XorXnor"
                                            THEN gate.inputs % 2 = 1
                                            ELSE gate.inputs /= 0))
    /\ \A i \in 1 .. MaxFan : circuit.node_data[dut.inputs[i]].inputs = 0

C28_Witness ==
    /\ dut.kind = "Xnor"
    /\ ~work_left(circuit)
    /\ \A i \in 1 .. MaxFan : is_active(circuit, dut.inputs[i])
    /\ Cardinality(producers(circuit, dut.out)) = MaxFan
    /\ circuit.node_data[dut.out].inputs = MaxFan % 2
    /\ get_output(circuit, dut.out) = (MaxFan % 2 = 0)

----------------------------------------------------------------------------
(* connect against the state of its producer (SpecFan) *)

C30_PendingEdgeCountedOnce ==
    (~work_left(circuit) /\ ~written.twice) =>
        circuit.node_data[dut.out].inputs
            = CASE circuit.node_data[dut.out].gate_type = "OrNor" ->
                       Cardinality(true_producers(circuit, dut.out))
                [] circuit.node_data[dut.out].gate_type = "XorXnor" ->
                       Cardinality(true_producers(circuit, dut.out)) % 2
                [] circuit.node_data[dut.out].gate_type = "AndNand" ->
                       (U8 - Cardinality(producers(circuit, dut.out)
                                         \ true_producers(circuit, dut.out))) % U8

----------------------------------------------------------------------------
(* update with its two loops visiting their lists in any order (SpecFan) *)

\* The orders of n visits: the permutations of 1 .. n
orders(n) ==
    {p \in [1 .. n -> 1 .. n] : \A i, j \in 1 .. n : p[i] = p[j] => i = j}

\* The bodies of one loop of update applied to the nodes of order from the
\* i-th on: of the first loop, or of the second when second is true
RECURSIVE visit_in_order(_, _, _, _)
visit_in_order(c0, order, i, second) ==
    IF i > Len(order) THEN c0
    ELSE visit_in_order(
             IF second THEN recompute_step([c |-> c0, node_id |-> order[i]]).c
             ELSE propagate_node([c |-> c0, node_id |-> order[i]]).c,
             order, i + 1, second)

\* The circuits update(c) can return when its first loop makes the visits of
\* the propagate list in any order and its second loop those of the recompute
\* list in any order
update_in_any_order(c) ==
    LET first == propagate_visits(c)
        after_first ==
            {visit_in_order([c EXCEPT !.update_head = NULL],
                            [i \in 1 .. Len(first) |-> first[p[i]]], 1, FALSE) :
                p \in orders(Len(first))}
    IN  UNION {LET second == recompute_visits(a)
               IN  {[visit_in_order([a EXCEPT !.changed_head = NULL],
                                    [i \in 1 .. Len(second) |-> second[q[i]]],
                                    1, TRUE)
                        EXCEPT !.tick = (@ + 1) % TickModulus] :
                       q \in orders(Len(second))} :
                  a \in after_first}

----------------------------------------------------------------------------
(* The engine with its two work lists kept as sets of NodeIds, as they were
   before the intrusive lists: insertion is idempotent and an update visits
   each member once.  The record is that of CircuitFast with the set of nodes
   to propagate in update_head, the set of nodes to recompute in changed_head
   and the links unused.  The controller of SpecEngine makes each of its
   calls on CircuitFast and then on this engine, kept in written.twin. *)

\* inputs_delta += 1 / -= 1, and the node inserted into the recompute set
set_modify(s, node_id, increment) ==
    [s EXCEPT !.node_update_data[node_id].inputs_delta =
                  IF increment THEN (@ + 1) % U8 ELSE (@ + U8 - 1) % U8,
              !.changed_head = @ \cup {node_id}]

\* set_input: the output written, the node inserted into the propagate set
set_set_input(s, node_id, val) ==
    IF s.node_data[node_id].output /= val
    THEN [s EXCEPT !.node_data[node_id].output = val,
                   !.update_head = @ \cup {node_id}]
    ELSE s

\* connect: the edge recorded and the consumer reconciled as in CircuitFast
set_connect(s, input, output) ==
    LET e == [s EXCEPT !.node_children[input] = Append(@, output)]
    IN  IF s.node_data[output].gate_type \in {"OrNor", "XorXnor"}
        THEN (IF is_active(s, input) THEN set_modify(e, output, TRUE) ELSE e)
        ELSE (IF ~is_active(s, input) THEN set_modify(e, output, FALSE) ELSE e)

\* update: every member of the propagate set notifies each of its children
\* once per edge, then every member of the recompute set with a non-zero
\* delta applies it and joins the new propagate set if its output changed
set_update(s) ==
    LET nodes == 1 .. Len(s.node_data)
        notifying(c) == {e \in producers(s, c) : e[1] \in s.update_head}
        up(c) == Cardinality({e \in notifying(c) : is_active(s, e[1])})
        down(c) == Cardinality({e \in notifying(c) : ~is_active(s, e[1])})
        delta(c) == (s.node_update_data[c].inputs_delta + up(c)
                     + (U8 - 1) * down(c)) % U8
        changed == s.changed_head \cup {c \in nodes : notifying(c) /= {}}
        inputs(c) == IF s.node_data[c].gate_type = "XorXnor"
                     THEN xor_low_bit(s.node_data[c].inputs, delta(c))
                     ELSE (s.node_data[c].inputs + delta(c)) % U8
        recomputed == {c \in changed : delta(c) /= 0}
        output(c) == s.node_data[c].inverted /= (inputs(c) /= 0)
    IN  [s EXCEPT
            !.node_data = [c \in nodes |->
                IF c \in recomputed
                THEN [s.node_data[c] EXCEPT !.inputs = inputs(c),
                                            !.output = output(c)]
                ELSE s.node_data[c]],
            !.node_update_data = [c \in nodes |->
                IF c \in changed
                THEN [s.node_update_data[c] EXCEPT !.inputs_delta = 0]
                ELSE s.node_update_data[c]],
            !.update_head = {c \in recomputed :
                                output(c) /= s.node_data[c].output},
            !.changed_head = {},
            !.tick = (@ + 1) % TickModulus]

InitRefine ==
    /\ circuit = new
    /\ pc = "idle"
    /\ dut = <<>>
    /\ args = NoCall
    /\ result = [kind |-> "get_output", val |-> FALSE]
    /\ written = [twin |-> [new EXCEPT !.update_head = {}, !.changed_head = {}],
                  before |-> new, updates |-> 0, sets |-> 0,
                  ticks |-> 0, ran |-> FALSE]

\* The call just made on CircuitFast, made on the set-based engine
RefineTwin ==
    /\ pc = "twin"
    /\ written' = [written EXCEPT
           !.twin = CASE args.call = "update" -> set_update(@)
                      [] args.call = "create_node" ->
                             create_node(@, args.node_type)
                      [] args.call = "connect" ->
                             set_connect(@, args.input, args.output)
                      [] args.call = "set_input" ->
                             set_set_input(@, args.node_id, args.val),
           !.before = circuit]
    /\ args' = NoCall
    /\ pc' = "idle"
    /\ UNCHANGED <<circuit, dut, result>>

NextRefine == EngCall \/ RefineTwin

SpecRefine == InitRefine /\ [][NextRefine]_vars

\* C32: after every sequence of node creation, connect, set_input and update
\* calls made on both engines, CircuitFast and the set-based engine have the
\* same output for every node and the same work_left().
C32_ListsRefineSets ==
    pc = "idle" =>
        /\ \A n \in 1 .. Len(circuit.node_data) :
               get_output(circuit, n) = get_output(written.twin, n)
        /\ work_left(circuit)
             = (written.twin.update_head /= {} \/ written.twin.changed_head /= {})

----------------------------------------------------------------------------
(* A gate over many external inputs.  The controller sets every input to the
   same value, one set_input after the other, runs the circuit to quiescence,
   and goes on with the other value. *)

\* Largest fan-in of the gate
MaxWide == 256

\* The gate, the inputs, and an edge from every input to the gate
WideBuild(kind, k) ==
    [calls |-> <<CreateNode(kind, 1)>>
               \o [i \in 1 .. k |-> CreateNode("Input", 1 + i)]
               \o [i \in 1 .. k |-> Connect(1 + i, 1)],
     out |-> 1, inputs |-> [i \in 1 .. k |-> 1 + i]]

InitWide ==
    \E kind \in GateKinds : \E k \in {1, MaxWide - 1, MaxWide} :
    \E b \in {WideBuild(kind, k)} :
        /\ handles_ok(b.calls)
        /\ circuit = build(b.calls)
        /\ dut = [kind |-> kind, k |-> k, out |-> b.out, inputs |-> b.inputs]
        /\ pc = "run"
        /\ args = [i |-> k, val |-> FALSE]
        /\ result = FALSE
        /\ written = <<>>

\* The circuit is quiescent: the controller turns to the other value
WideTurn ==
    /\ pc = "run"
    /\ ~work_left(circuit)
    /\ args' = [i |-> 0, val |-> ~args.val]
    /\ pc' = "drive"
    /\ UNCHANGED <<circuit, dut, result, written>>

\* set_input of the next input; after the last one the controller runs the
\* circuit
WideSet ==
    /\ pc = "drive"
    /\ circuit' = set_input(circuit, dut.inputs[args.i + 1], args.val)
    /\ args' = [args EXCEPT !.i = @ + 1]
    /\ pc' = (IF args.i + 1 = dut.k THEN "run" ELSE "drive")
    /\ UNCHANGED <<dut, result, written>>

NextWide == WideTurn \/ WideSet \/ Update

SpecWide == InitWide /\ [][NextWide]_vars

\* C33: whenever the circuit is quiescent the output of the gate is the one
\* unbounded counters give, its boolean function of its producers, whatever
\* the fan-in: also with 256 producers all true or all false.
C33_WraparoundHarmless ==
    (pc = "run" /\ ~work_left(circuit)) =>
        get_output(circuit, dut.out)
            = gate_function(dut.kind, dut.k,
                            Cardinality(true_producers(circuit, dut.out)))

----------------------------------------------------------------------------
(* The path of the write strobe through the SRAM as built (SpecSram) *)

\* C34: from the write input the cells' q_set / q_reset gates (the And gates
\* the strobe feeds) are reached through exactly two buffers in Sram::new and
\* exactly three in Sram::new_full_2d: the nodes one, two (and three) edges
\* away from write are Or buffers only, and the nodes one edge further are
\* the And gates.
C34_StrobeDelay ==
    LET children(S) == UNION {{circuit.node_children[n][i] :
                                  i \in 1 .. Len(circuit.node_children[n])} :
                                 n \in S}
        buffers(S) == /\ S /= {}
                      /\ \A n \in S : /\ circuit.node_data[n].gate_type = "OrNor"
                                      /\ ~circuit.node_data[n].inverted
        gates(S) == /\ S /= {}
                    /\ \A n \in S : circuit.node_data[n].gate_type = "AndNand"
        hop1 == children({dut.write})
        hop2 == children(hop1)
        hop3 == children(hop2)
        hop4 == children(hop3)
    IN  IF dut.variant = "new"
        THEN buffers(hop1) /\ buffers(hop2) /\ gates(hop3)
        ELSE buffers(hop1) /\ buffers(hop2) /\ buffers(hop3) /\ gates(hop4)

----------------------------------------------------------------------------
(* The set_input calls of the latch constructors (SpecLatch) *)

\* C35: every set_input call a constructor makes targets a node with no
\* incoming edge: no connect call of the construction has that node as its
\* output, before the set_input or after it, and the node has no producer in
\* the circuit at any later time.
C35_OnlyInputsWritten ==
    LET calls == LatchBuild(dut.variant).calls
    IN  \A i \in 1 .. Len(calls) :
            calls[i].call = "set_input" =>
                /\ \A j \in 1 .. Len(calls) :
                       calls[j].call = "connect" =>
                           calls[j].output /= calls[i].node_id
                /\ producers(circuit, calls[i].node_id) = {}

----------------------------------------------------------------------------
(* The recompute list between ticks (SpecWide) *)

\* C36: between ticks a node is on the recompute list iff its inputs_delta
\* is not 0.
C36_ListedIffDelta ==
    \A n \in 1 .. Len(circuit.node_data) :
        (\E i \in DOMAIN recompute_visits(circuit) :
             recompute_visits(circuit)[i] = n)
            <=> circuit.node_update_data[n].inputs_delta /= 0

----------------------------------------------------------------------------
(* Termination of update (SpecFan) *)

\* C37: update() terminates from every reachable state, cyclic links
\* included, and its visits are bounded by the enqueue operations since the
\* previous tick.  Each loop, followed for twice as many steps as there are
\* nodes, ends at NULL after no more visits than its list has links (the head
\* and every link that is not NULL), and the links are accounted for by
\* enqueue operations: a set_input adds at most one to the propagate list, a
\* connect at most one to the recompute list, each child notified in the first
\* loop at most one to the recompute list, each visit of the second loop at
\* most one to the propagate list, and an update leaves the recompute list
\* without links.
C37_UpdateTerminates ==
    LET bound == 2 * Len(circuit.node_data) + 2
        update_links(c) ==
            Cardinality({n \in 1 .. Len(c.node_data) :
                             c.node_data[n].next_update /= NULL})
            + (IF c.update_head = NULL THEN 0 ELSE 1)
        changed_links(c) ==
            Cardinality({n \in 1 .. Len(c.node_data) :
                             c.node_update_data[n].next_changed /= NULL})
            + (IF c.changed_head = NULL THEN 0 ELSE 1)
        first(c) ==
            visits([i \in 1 .. Len(c.node_data) |-> c.node_data[i].next_update],
                   c.update_head, bound)
        second(c) ==
            visits([i \in 1 .. Len(c.node_data) |->
                        c.node_update_data[i].next_changed],
                   c.changed_head, bound)
        after_first(c) == propagate([c |-> [c EXCEPT !.update_head = NULL],
                                     node_id |-> c.update_head])
        notified(c) == UNION {{<<i, j>> : j \in 1 .. Len(c.node_children[first(c)[i]])} :
                                 i \in DOMAIN first(c)}
    IN  /\ Len(first(circuit)) <= update_links(circuit)
        /\ Len(second(after_first(circuit)))
               <= changed_links(after_first(circuit))
        /\ changed_links(after_first(circuit))
               <= changed_links(circuit) + Cardinality(notified(circuit))
        /\ args.call = "set_input" =>
               /\ update_links(circuit) <= update_links(written.before) + 1
               /\ changed_links(circuit) = changed_links(written.before)
        /\ args.call = "connect" =>
               /\ changed_links(circuit) <= changed_links(written.before) + 1
               /\ update_links(circuit) = update_links(written.before)
        /\ args.call = "update" =>
               /\ changed_links(circuit) = 0
               /\ update_links(circuit)
                      <= Len(second(after_first(written.before)))

\* An update has run on a propagate list whose links formed a cycle: its
\* first loop visited some node twice
C37_Witness ==
    /\ args.call = "update"
    /\ \E i, j \in DOMAIN propagate_visits(written.before) :
           /\ i /= j
           /\ propagate_visits(written.before)[i]
                  = propagate_visits(written.before)[j]

----------------------------------------------------------------------------
(* The state an update leaves behind (SpecEngine) *)

\* C38: after every update() the recompute list is empty, every node has
\* inputs_delta 0 and next_changed NULL, the propagate list holds exactly the
\* nodes whose output the update changed, and work_left() is true iff some
\* output changed.
C38_AfterUpdate ==
    (pc = "twin" /\ args.call = "update") =>
        LET changed == {n \in 1 .. Len(circuit.node_data) :
                            circuit.node_data[n].output
                                /= written.before.node_data[n].output}
        IN  /\ circuit.changed_head = NULL
            /\ recompute_visits(circuit) = <<>>
            /\ \A n \in 1 .. Len(circuit.node_data) :
                   /\ circuit.node_update_data[n].inputs_delta = 0
                   /\ circuit.node_update_data[n].next_changed = NULL
            /\ {propagate_visits(circuit)[i] :
                    i \in DOMAIN propagate_visits(circuit)} = changed
            /\ \A i, j \in DOMAIN propagate_visits(circuit) :
                   propagate_visits(circuit)[i] = propagate_visits(circuit)[j]
                       => i = j
            /\ \A n \in 1 .. Len(circuit.node_data) :
                   circuit.node_data[n].next_update /= NULL => n \in changed
            /\ work_left(circuit) <=> changed /= {}

\* An update has changed the output of one node and left another's as it was
C38_Witness ==
    /\ pc = "twin"
    /\ args.call = "update"
    /\ \E n, m \in 1 .. Len(circuit.node_data) :
           /\ circuit.node_data[n].output /= written.before.node_data[n].output
           /\ circuit.node_data[m].output = written.before.node_data[m].output
           /\ written.before.node_update_data[n].inputs_delta /= 0

----------------------------------------------------------------------------
(* The function of a gate over external inputs (SpecFan) *)

\* C39: a gate with k producers, 1 <= k < 256, all of them external inputs
\* connected while they were not waiting on the propagate list, is at
\* quiescence true iff: Or, at least one producer is true; And, all are; Xor,
\* an odd number are; and Nor, Nand, Xnor are the complements.
C39_GateSemantics ==
    LET k == Cardinality(producers(circuit, dut.out))
        t == Cardinality(true_producers(circuit, dut.out))
        out == get_output(circuit, dut.out)
    IN  (~work_left(circuit) /\ ~written.pending /\ 1 <= k /\ k < U8) =>
            /\ dut.kind = "Or"   => (out <=> t >= 1)
            /\ dut.kind = "Nor"  => (out <=> ~(t >= 1))
            /\ dut.kind = "And"  => (out <=> t = k)
            /\ dut.kind = "Nand" => (out <=> ~(t = k))
            /\ dut.kind = "Xor"  => (out <=> t % 2 = 1)
            /\ dut.kind = "Xnor" => (out <=> ~(t % 2 = 1))

----------------------------------------------------------------------------
(* Quiescence of a circuit without feedback (SpecDelay) *)

\* C40: the chain has no feedback edge and its longest path has d = dut.k
\* gates.  After a set_input on the quiescent chain, and after each further
\* update(), run(max) with max > d + 1 returns Finished { after_ticks } with
\* the ticks already made plus after_ticks at most d + 1, so run_until_done
\* terminates.
C40_AcyclicQuiesces ==
    pc = "delay" =>
        \A max \in dut.k + 2 .. dut.k + 3 :
            /\ run_result(circuit, 0, max).kind = "Finished"
            /\ written.n + run_result(circuit, 0, max).ticks <= dut.k + 1
            /\ ~work_left(run(circuit, max))

\* The longest chain right after its input was set: the run takes d + 1 ticks
C40_Witness ==
    /\ pc = "delay"
    /\ written.n = 0
    /\ dut.k = MaxStages
    /\ work_left(circuit)
    /\ run_result(circuit, 0, MaxStages + 2) = Finished(MaxStages + 1)

====
